---- MODULE Spec2Model ----
(***************************************************************************)
(* Streamax N9M servers: the framing codecs, receive loops, signal         *)
(* dispatch and per-channel recording of                                   *)
(*   src/video_server.js      (12-byte header, 16-bit ssrc, `devices`)     *)
(*   src/unnamed/part_001     (8-byte header + csrc list, N9MConnection)   *)
(*   src/unnamed/part_000     (12-byte header, 32-bit ssrc, handleCert)    *)
(*                                                                         *)
(* Buffers are sequences of bytes (0..255).  JSON text is carried over a   *)
(* reduced alphabet: every string literal is one byte (its index in        *)
(* Lexemes, from 128 up), integers are their decimal digits, and the       *)
(* punctuation { } : , - and the blank keep their ASCII codes.             *)
(***************************************************************************)
EXTENDS Integers, Sequences, FiniteSets, TLC

VARIABLES
    \* ---- codec harness: one device stream fed to one program's receive loop
    prog,        \* which program's codec is exercised: "vs", "n9m" or "ctl"
    sent,        \* the frames the device encodes
    stream,      \* their encoding, <<>> until encoded
    pos,         \* bytes of stream delivered so far
    rbuf,        \* the receive buffer (buffer / recvBuf / rx)
    decoded,     \* every frame the receive loop has obtained, in order
    lastEvent,   \* the last data event: buffer after concat, frames, remainder
    oneShot      \* TRUE while the stream was delivered in at most one event

VARIABLES
    \* ---- video_server.js
    devices,     \* the registry `devices`: session key -> device entry
    sock,        \* per connection: "new", "open", "failing" (a write failed: Node has
                 \* destroyed the socket and its 'error' event is to come), "ended"
                 \* or "errored"
    buffers,     \* per connection: the closure's `buffer`
    sessionIds,  \* per connection: the closure's `sessionId`
    pending,     \* per connection: packets handed to setTimeout, not yet written
    evt,         \* the last handler run: its kind, connection, packets, effects
    nData,       \* data events so far
    process      \* "running", or "exited" after an unhandled rejection ended it

VARIABLES
    \* ---- unnamed/part_000: the control server
    SESSIONS,    \* the Map `SESSIONS`: session key -> entry
    ctlSock,     \* per connection: "new", "open", "closed" or "errored"
    rx,          \* per connection: the closure's `rx`
    lastSsrc,    \* per connection: the closure's `ssrc` (0 while undefined:
                 \* buildSignalFrame writes `ssrc >>> 0`)
    ctlTimers,   \* callbacks handed to setTimeout, not yet run
    ctlEvt,      \* the last handler run: its kind, frames and writes
    nCtl,        \* data events so far
    ctlProcess   \* "running", or "exited" after an uncaught exception

VARIABLES
    \* ---- unnamed/part_001: the transmit-mode server
    conn,        \* per connection: the N9MConnection object, its write streams and log;
                 \* its times are in ms relative to the present
    n9mSock,     \* per connection: "new", "open", "failing" (a write failed: Node has
                 \* destroyed the socket and its 'error' event comes next),
                 \* "destroyed" or "closed"
    n9mEvt,      \* the last handler run: its kind, connection, packets, writes
    nN9M,        \* data events so far
    n9mProcess,  \* "running", or "exited" after an unhandled 'error' event
    wsRooms,     \* the Map `wsRooms`: room key -> set of viewers
    viewers      \* per viewer: its WebSocket's readyState, its room, and whether
                 \* its send buffer is full

codecVars == <<prog, sent, stream, pos, rbuf, decoded, lastEvent, oneShot>>
vsVars == <<devices, sock, buffers, sessionIds, pending, evt, nData, process>>
ctlVars == <<SESSIONS, ctlSock, rx, lastSsrc, ctlTimers, ctlEvt, nCtl, ctlProcess>>
n9mVars == <<conn, n9mSock, n9mEvt, nN9M, n9mProcess>>
hubVars == <<wsRooms, viewers>>
vars == <<codecVars, vsVars, ctlVars, n9mVars, hubVars>>
notCodec == <<vsVars, ctlVars, n9mVars, hubVars>>
notVS == <<codecVars, ctlVars, n9mVars, hubVars>>
notCtl == <<codecVars, vsVars, n9mVars, hubVars>>
notPart001 == <<codecVars, vsVars, ctlVars>>
notN9M == <<notPart001, hubVars>>

----------------------------------------------------------------------------
(* Bytes and Buffer accessors                                              *)

Min(a, b) == IF a < b THEN a ELSE b
Max(a, b) == IF a > b THEN a ELSE b

\* Buffer.writeUInt16BE / writeUInt32BE.  Every 32-bit quantity of the model stays
\* below 2^31 (TLC's integers are 32-bit signed), so `id >>> 0` is the
\* identity on the values used.
writeUInt16BE(n) == << (n \div 256) % 256, n % 256 >>
writeUInt32BE(n) ==
    << (n \div 16777216) % 256, (n \div 65536) % 256, (n \div 256) % 256, n % 256 >>

\* Buffer.readUInt16BE / readUInt32BE at a 0-based offset.  A 32-bit value of
\* 2^30 or more is read as 2^30: every buffer of the model is far shorter, so no
\* length comparison or slice is changed by it.
readUInt16BE(buf, off) == buf[off + 1] * 256 + buf[off + 2]
readUInt32BE(buf, off) ==
    IF buf[off + 1] >= 64 THEN 1073741824
    ELSE ((buf[off + 1] * 256 + buf[off + 2]) * 256 + buf[off + 3]) * 256 + buf[off + 4]

\* Buffer.subarray(a, b) / Buffer.slice(a, b): 0-based, end exclusive, clamped
slice(buf, a, b) == SubSeq(buf, Min(a, Len(buf)) + 1, Min(b, Len(buf)))
sliceFrom(buf, a) == SubSeq(buf, Min(a, Len(buf)) + 1, Len(buf))

RECURSIVE Concat(_)
\* Buffer.concat of a list of buffers
Concat(bufs) == IF bufs = <<>> THEN <<>> ELSE Head(bufs) \o Concat(Tail(bufs))

----------------------------------------------------------------------------
(* JSON values and their text                                              *)

JS(s) == [t |-> "str", s |-> s]
JN(n) == [t |-> "num", n |-> n]
JO(f) == [t |-> "obj", o |-> f]
JB(b) == [t |-> "bool", b |-> b]
JNull == [t |-> "null"]
Undefined == [t |-> "undef"]
EmptyObj == JO(<<>>)

\* The string literals of the protocol; a literal's byte is 127 + its index.
Lexemes ==
    << "", "MODULE", "OPERATION", "SESSION", "PARAMETER", "RESPONSE",
       "CERTIFICATE", "MEDIASTREAMMODEL", "EVEM",
       "CONNECT", "KEEPALIVE", "CREATESTREAM", "VERIFY", "LOGIN", "LOGOUT",
       "MEDIATASKSTART", "REQUESTSTREAM", "REQUESTALIVEVIDEO",
       "DSNO", "CARNUM", "CHANNEL", "DEVNAME", "DEVCLASS", "DEVTYPE", "NET", "PRO",
       "SO", "ERRORCODE", "ERRORCAUSE", "MASKCMD", "SUCCESS", "OK", "RETURN",
       "STREAMTYPE", "STREAMNAME", "CSRC", "SSRC", "STEAMTYPE", "AUDIOVALID",
       "IPANDPORT", "FRAMECOUNT", "FRAMEMODE",
       "type", "value", "string", "integer", "boolean", "true",
       "module", "operation", "parameter", "response", "name", "Type",
       "dsno", "deviceid", "imei",
       "s1", "s2", "d1", "d2", "car1", "car2", "n1", "n2", "c1", "c2", "t1", "t2",
       "net1", "net2", "1.0.5", "1.0.6", "2.0.0", "1", "live",
       "91.238.164.100:5556", "tokA", "tokB",
       "certificate", "mediaStreamModel", "KeepAlive", "Request-response",
       "CreateStream", "ControlStream", "Connect", "MediaTaskStart",
       "live-d1", "live-d2", "live-now", "Unknown",
       "vision", "devtype", "streamname", "ipandport", "csrc", "pt", "ssrc",
       "streamtype", "audiovalid", "cmd", "unknown" >>

\* Property order of the serializer (JSON.stringify keeps insertion order; the
\* objects here are unordered, so one fixed order stands for it).
KeyOrder == Lexemes

\* a literal's index in Lexemes
IndexOf == [s \in {Lexemes[i] : i \in 1..Len(Lexemes)} |->
               CHOOSE i \in 1..Len(Lexemes) : Lexemes[i] = s]
Code(s) == 127 + IndexOf[s]
IsStrCode(b) == b >= 128 /\ b <= 127 + Len(Lexemes)
Lexeme(b) == Lexemes[b - 127]
IsDigit(b) == b >= 48 /\ b <= 57

RECURSIVE Digits(_)
Digits(n) == IF n < 10 THEN <<48 + n>> ELSE Digits(n \div 10) \o <<48 + (n % 10)>>
NumText(n) == IF n < 0 THEN <<45>> \o Digits(0 - n) ELSE Digits(n)

RECURSIVE Stringify(_)
RECURSIVE Members(_, _, _)
\* the members of object o whose keys have the indices ixs, in serializer order;
\* undefined properties are left out
Members(o, ixs, first) ==
    IF ixs = {} THEN <<>>
    ELSE LET i == CHOOSE x \in ixs : \A y \in ixs : x <= y
             k == KeyOrder[i]
         IN  IF o[k].t # "undef"
             THEN (IF first THEN <<>> ELSE <<44>>) \o <<127 + i, 58>>
                      \o Stringify(o[k]) \o Members(o, ixs \ {i}, FALSE)
             ELSE Members(o, ixs \ {i}, first)

\* JSON.stringify
Stringify(v) ==
    CASE v.t = "str" -> <<Code(v.s)>>
      [] v.t = "num" -> NumText(v.n)
      [] v.t = "bool" -> IF v.b THEN <<116>> ELSE <<102>>     \* true, false
      [] v.t = "null" -> <<110>>
      [] v.t = "obj" -> <<123>> \o Members(v.o, {IndexOf[k] : k \in DOMAIN v.o}, TRUE) \o <<125>>

ParseFail == [ok |-> FALSE, v |-> Undefined, next |-> 0]

RECURSIVE DigitsEnd(_, _)
\* index after the run of digits starting at i
DigitsEnd(b, i) == IF i <= Len(b) /\ IsDigit(b[i]) THEN DigitsEnd(b, i + 1) ELSE i

RECURSIVE DigitsValue(_, _, _, _)
DigitsValue(b, i, j, acc) ==
    IF i >= j THEN acc ELSE DigitsValue(b, i + 1, j, acc * 10 + (b[i] - 48))

ParseNumber(b, i) ==
    LET neg == b[i] = 45
        d == IF neg THEN i + 1 ELSE i
        e == DigitsEnd(b, d)
    IN  IF e = d \/ (b[d] = 48 /\ e > d + 1) THEN ParseFail
        ELSE [ok |-> TRUE,
              v |-> JN(IF neg THEN 0 - DigitsValue(b, d, e, 0) ELSE DigitsValue(b, d, e, 0)),
              next |-> e]

RECURSIVE ParseValue(_, _)
RECURSIVE ParseMembers(_, _, _)
ParseMembers(b, i, o) ==
    IF i + 1 > Len(b) \/ ~IsStrCode(b[i]) \/ b[i + 1] # 58 THEN ParseFail
    ELSE LET r == ParseValue(b, i + 2) IN
         IF ~r.ok \/ r.next > Len(b) THEN ParseFail
         ELSE LET o2 == (Lexeme(b[i]) :> r.v) @@ o IN
              IF b[r.next] = 125 THEN [ok |-> TRUE, v |-> JO(o2), next |-> r.next + 1]
              ELSE IF b[r.next] = 44 THEN ParseMembers(b, r.next + 1, o2)
              ELSE ParseFail

ParseValue(b, i) ==
    IF i > Len(b) THEN ParseFail
    ELSE IF IsStrCode(b[i]) THEN [ok |-> TRUE, v |-> JS(Lexeme(b[i])), next |-> i + 1]
    ELSE IF b[i] = 45 \/ IsDigit(b[i]) THEN ParseNumber(b, i)
    ELSE IF b[i] = 116 THEN [ok |-> TRUE, v |-> JB(TRUE), next |-> i + 1]
    ELSE IF b[i] = 102 THEN [ok |-> TRUE, v |-> JB(FALSE), next |-> i + 1]
    ELSE IF b[i] = 110 THEN [ok |-> TRUE, v |-> JNull, next |-> i + 1]
    ELSE IF b[i] = 123 THEN
         IF i + 1 <= Len(b) /\ b[i + 1] = 125
         THEN [ok |-> TRUE, v |-> EmptyObj, next |-> i + 2]
         ELSE ParseMembers(b, i + 1, <<>>)
    ELSE ParseFail

\* JSON.parse of a whole text: ok = FALSE stands for the SyntaxError it throws
JSONparse(b) ==
    LET r == ParseValue(b, 1) IN
    IF r.ok /\ r.next = Len(b) + 1 THEN r ELSE ParseFail

RECURSIVE trimStart(_)
trimStart(b) == IF b # <<>> /\ Head(b) = 32 THEN trimStart(Tail(b)) ELSE b
RECURSIVE trimEnd(_)
trimEnd(b) == IF b # <<>> /\ b[Len(b)] = 32 THEN trimEnd(SubSeq(b, 1, Len(b) - 1)) ELSE b
\* String.prototype.trim
trim(b) == trimEnd(trimStart(b))

\* obj.key of JS: undefined for a missing property and for a property of a primitive
Prop(v, k) == IF v.t = "obj" /\ k \in DOMAIN v.o THEN v.o[k] ELSE Undefined
\* JS truthiness
Truthy(v) ==
    CASE v.t = "undef" -> FALSE
      [] v.t = "str" -> v.s # ""
      [] v.t = "num" -> v.n # 0
      [] v.t = "bool" -> v.b
      [] v.t = "null" -> FALSE
      [] v.t = "obj" -> TRUE
\* a || b
OrElse(a, b) == IF Truthy(a) THEN a ELSE b

Null == [null |-> TRUE]

----------------------------------------------------------------------------
(* video_server.js: buildPacket / parsePacket                              *)

\* a header without the reserve field
withHeaderNoReserve(payloadBuf, payloadType, ssrc) ==
    <<0, payloadType>> \o writeUInt16BE(ssrc) \o writeUInt32BE(Len(payloadBuf)) \o payloadBuf

\* the 12-byte header of lines 53-61 in front of payloadBuf
withHeader(payloadBuf, payloadType, ssrc) ==
    <<0, payloadType>> \o writeUInt16BE(ssrc)      \* first byte: version, padding,
        \o writeUInt32BE(Len(payloadBuf))          \* marker, csrcCount, all 0
        \o writeUInt32BE(0) \o payloadBuf

buildPacket(payloadObj, payloadType, ssrc) ==
    withHeader(Stringify(payloadObj), payloadType, ssrc)

\* the payload as parsePacket hands it on: parsed JSON, the trimmed text when
\* JSON.parse throws, or the raw bytes
interpretPayload(payloadType, payloadBuffer) ==
    IF payloadType = 0 \/ payloadType = 1
    THEN LET r == JSONparse(trim(payloadBuffer)) IN
         IF r.ok THEN [kind |-> "json", v |-> r.v]
         ELSE [kind |-> "text", bytes |-> trim(payloadBuffer)]
    ELSE [kind |-> "bin", bytes |-> payloadBuffer]

parsePacket(buffer) ==
    IF Len(buffer) < 12 THEN Null
    ELSE LET firstByte == buffer[1]
             payloadType == buffer[2]
             ssrc == readUInt16BE(buffer, 2)
             payloadLen == readUInt32BE(buffer, 4)
             reserve == readUInt32BE(buffer, 8)
             totalLen == 12 + payloadLen
         IN  IF Len(buffer) < totalLen THEN Null
             ELSE [version |-> (firstByte \div 64) % 4,
                   padding |-> (firstByte \div 32) % 2,
                   marker |-> (firstByte \div 16) % 2,
                   csrcCount |-> firstByte % 16,
                   payloadType |-> payloadType,
                   ssrc |-> ssrc,
                   payloadLen |-> payloadLen,
                   reserve |-> reserve,
                   payload |-> interpretPayload(payloadType, slice(buffer, 12, totalLen)),
                   totalLength |-> totalLen]

RECURSIVE recvLoopVS(_)
\* the while loop of socket.on("data"): the packets obtained, the payload bytes
\* each was cut from (payloadBuffer), and the remainder
recvLoopVS(buffer) ==
    IF Len(buffer) > 0
    THEN LET packet == parsePacket(buffer) IN
         IF packet = Null THEN [frames |-> <<>>, raws |-> <<>>, rest |-> buffer]
         ELSE LET more == recvLoopVS(sliceFrom(buffer, packet.totalLength)) IN
              [frames |-> <<packet>> \o more.frames,
               raws |-> <<slice(buffer, 12, packet.totalLength)>> \o more.raws,
               rest |-> more.rest]
    ELSE [frames |-> <<>>, raws |-> <<>>, rest |-> buffer]

----------------------------------------------------------------------------
(* part_001: buildN9MPacket / packSignal / parseN9M                        *)

RECURSIVE csrcBytes(_)
csrcBytes(csrcs) ==
    IF csrcs = <<>> THEN <<>>
    ELSE writeUInt32BE(Head(csrcs)) \o csrcBytes(Tail(csrcs))

\* csrcs holds at most 15 ids (a longer list makes writeUInt32BE throw)
buildN9MPacket(pt, ssrc, csrcs, payload) ==
    LET CC == Len(csrcs) % 16
        first == 128 + CC                           \* V = 2, P = 0, M = 0
        header == <<first, pt % 256>> \o writeUInt16BE(ssrc % 65536)
                      \o writeUInt32BE(Len(payload))
    IN  header \o csrcBytes(csrcs) \o payload

packSignal(json) == buildN9MPacket(0, 0, <<>>, Stringify(json))

\* a parser that takes the fixed header to be 4 bytes long
parseN9M_001ShortHeader(buffer) ==
    IF Len(buffer) < 8 THEN Null
    ELSE LET cc == buffer[1] % 16
             payloadLen == readUInt32BE(buffer, 4)
             headerLen == 4 + cc * 4
         IN  IF Len(buffer) < headerLen + payloadLen THEN Null
             ELSE [pt |-> buffer[2], ssrc |-> readUInt16BE(buffer, 2),
                   payload |-> slice(buffer, headerLen, headerLen + payloadLen),
                   rest |-> sliceFrom(buffer, headerLen + payloadLen)]

parseN9M_001(buffer) ==
    IF Len(buffer) < 8 THEN Null
    ELSE LET vpmcc == buffer[1]
             cc == vpmcc % 16
             pt == buffer[2]
             ssrc == readUInt16BE(buffer, 2)
             payloadLen == readUInt32BE(buffer, 4)
             headerLen == 8 + cc * 4
         IN  IF Len(buffer) < headerLen + payloadLen THEN Null
             ELSE [pt |-> pt, ssrc |-> ssrc,
                   payload |-> slice(buffer, headerLen, headerLen + payloadLen),
                   rest |-> sliceFrom(buffer, headerLen + payloadLen)]

RECURSIVE recvLoop001(_)
\* the while (true) loop of N9MConnection.installHandlers
recvLoop001(recvBuf) ==
    LET pkt == parseN9M_001(recvBuf) IN
    IF pkt = Null THEN [frames |-> <<>>, rest |-> recvBuf]
    ELSE LET more == recvLoop001(pkt.rest) IN
         [frames |-> <<[pt |-> pkt.pt, ssrc |-> pkt.ssrc, payload |-> pkt.payload,
                        declared |-> readUInt32BE(recvBuf, 4)]>> \o more.frames,
          rest |-> more.rest]

----------------------------------------------------------------------------
(* part_000: parseN9M / buildSignalFrame                                   *)

parseN9M_000(buf) ==
    IF Len(buf) < 12 THEN Null
    ELSE LET b0 == buf[1]
             version == (b0 \div 64) % 4
             payloadType == buf[2]
             ssrc == readUInt32BE(buf, 2)
             payloadLen == readUInt32BE(buf, 6)
             headerLen == 12
         IN  \* the length check of line 68 is commented out in the source
             IF Len(buf) = 12 THEN Null
             ELSE [type |-> "N9M",
                   header |-> [version |-> version, payloadType |-> payloadType,
                               ssrc |-> ssrc, payloadLen |-> payloadLen,
                               headerLen |-> headerLen],
                   payload |-> slice(buf, headerLen, headerLen + payloadLen),
                   rest |-> sliceFrom(buf, headerLen + payloadLen)]

buildSignalFrame(ssrc, obj) ==
    LET body == Stringify(obj)
        header == <<128, 0>> \o writeUInt32BE(ssrc)
                      \o writeUInt32BE(Len(body)) \o writeUInt16BE(0)
    IN  header \o body

RECURSIVE recvLoop000(_)
\* the while (true) loop of socket.on('data')
recvLoop000(rxBuf) ==
    LET frame == parseN9M_000(rxBuf) IN
    IF frame = Null THEN [frames |-> <<>>, rest |-> rxBuf]
    ELSE LET more == recvLoop000(frame.rest) IN
         [frames |-> <<[header |-> frame.header, payload |-> frame.payload]>> \o more.frames,
          rest |-> more.rest]

----------------------------------------------------------------------------
(* Codec harness: a device encodes a frame sequence with a program's own   *)
(* encoder and the bytes reach that program's receive loop in chunks.      *)

MaxFrames == 2        \* frames per encoded stream

Progs == {"vs", "n9m", "ctl"}

KeepAliveObj == JO([OPERATION |-> JS("KEEPALIVE")])
NestedObj == JO([PARAMETER |-> JO([SSRC |-> JN(0 - 1)]), SESSION |-> JS("s1")])

\* what a device may encode: payload type, channel id, csrc list, and either a
\* signal object (obj) or raw payload bytes (raw)
FrameInputs(p) ==
    CASE p = "vs" ->
           { [pt |-> 0, ssrc |-> 1, csrcs |-> <<>>, json |-> TRUE, obj |-> EmptyObj, raw |-> <<>>],
             [pt |-> 0, ssrc |-> 513, csrcs |-> <<>>, json |-> TRUE, obj |-> KeepAliveObj, raw |-> <<>>],
             [pt |-> 1, ssrc |-> 65535, csrcs |-> <<>>, json |-> TRUE, obj |-> NestedObj, raw |-> <<>>],
             [pt |-> 2, ssrc |-> 7, csrcs |-> <<>>, json |-> TRUE, obj |-> KeepAliveObj, raw |-> <<>>] }
      [] p = "n9m" ->
           { [pt |-> 0, ssrc |-> 0, csrcs |-> <<>>, json |-> TRUE, obj |-> KeepAliveObj, raw |-> <<>>],
             [pt |-> 0, ssrc |-> 513, csrcs |-> <<7, 16909060>>, json |-> TRUE, obj |-> NestedObj, raw |-> <<>>],
             [pt |-> 2, ssrc |-> 5, csrcs |-> <<>>, json |-> FALSE, obj |-> EmptyObj, raw |-> <<1, 2>>],
             [pt |-> 2, ssrc |-> 7, csrcs |-> <<>>, json |-> FALSE, obj |-> EmptyObj, raw |-> <<>>] }
      [] p = "ctl" ->
           { [pt |-> 0, ssrc |-> 1, csrcs |-> <<>>, json |-> TRUE, obj |-> EmptyObj, raw |-> <<>>],
             [pt |-> 0, ssrc |-> 16909060, csrcs |-> <<>>, json |-> TRUE, obj |-> KeepAliveObj, raw |-> <<>>],
             [pt |-> 0, ssrc |-> 0, csrcs |-> <<>>, json |-> TRUE, obj |-> NestedObj, raw |-> <<>>] }

\* the program's encoder applied to one frame input
encodeFrame(p, f) ==
    CASE p = "vs" -> buildPacket(f.obj, f.pt, f.ssrc)
      [] p = "n9m" -> buildN9MPacket(f.pt, f.ssrc, f.csrcs,
                                     IF f.json THEN Stringify(f.obj) ELSE f.raw)
      [] p = "ctl" -> buildSignalFrame(f.ssrc, f.obj)

\* One decoded frame as the claims see it: payload type, channel id, the length
\* the header declared, the payload bytes the decoder cut out and what they
\* deserialize to (Undefined when they are no JSON text).
view(pt, ssrc, declared, bytes) ==
    [pt |-> pt, ssrc |-> ssrc, declared |-> declared, payload |-> bytes,
     obj |-> LET r == JSONparse(trim(bytes)) IN IF r.ok THEN r.v ELSE Undefined]

\* the program's receive loop on a buffer: its frames (as views) and remainder
recvLoop(p, buffer) ==
    CASE p = "vs" ->
           LET r == recvLoopVS(buffer) IN
           [frames |-> [i \in 1..Len(r.frames) |->
                           view(r.frames[i].payloadType, r.frames[i].ssrc,
                                r.frames[i].payloadLen, r.raws[i])],
            rest |-> r.rest]
      [] p = "n9m" ->
           LET r == recvLoop001(buffer) IN
           [frames |-> [i \in 1..Len(r.frames) |->
                           view(r.frames[i].pt, r.frames[i].ssrc,
                                r.frames[i].declared, r.frames[i].payload)],
            rest |-> r.rest]
      [] p = "ctl" ->
           LET r == recvLoop000(buffer) IN
           [frames |-> [i \in 1..Len(r.frames) |->
                           view(r.frames[i].header.payloadType, r.frames[i].header.ssrc,
                                r.frames[i].header.payloadLen, r.frames[i].payload)],
            rest |-> r.rest]

\* the fixed header size, the whole header size (with the csrc list) and the
\* declared payload length of the frame at the head of a buffer
fixedHeader(p) == IF p = "n9m" THEN 8 ELSE 12
headerSize(p, buffer) == IF p = "n9m" THEN 8 + (buffer[1] % 16) * 4 ELSE 12
declaredLen(p, buffer) == readUInt32BE(buffer, IF p = "ctl" THEN 6 ELSE 4)

FrameSeqs(p) == UNION { [1..n -> FrameInputs(p)] : n \in 1..MaxFrames }

NoEvent == [buf |-> <<>>, frames |-> <<>>, rest |-> <<>>]

CodecInit ==
    /\ prog \in Progs
    /\ sent \in FrameSeqs(prog)
    /\ stream = <<>>
    /\ pos = 0
    /\ rbuf = <<>>
    /\ decoded = <<>>
    /\ lastEvent = NoEvent
    /\ oneShot = TRUE

\* the device serializes its frames onto the connection
Encode ==
    /\ stream = <<>>
    /\ stream' = Concat([i \in 1..Len(sent) |-> encodeFrame(prog, sent[i])])
    /\ UNCHANGED <<prog, sent, pos, rbuf, decoded, lastEvent, oneShot, notCodec>>

\* one 'data' event carrying the next k bytes
Deliver(k) ==
    /\ stream # <<>>
    /\ pos + k <= Len(stream)
    /\ \E r \in {recvLoop(prog, rbuf \o SubSeq(stream, pos + 1, pos + k))} :
           /\ rbuf' = r.rest
           /\ decoded' = decoded \o r.frames
           /\ lastEvent' = [buf |-> rbuf \o SubSeq(stream, pos + 1, pos + k),
                            frames |-> r.frames, rest |-> r.rest]
    /\ pos' = pos + k
    /\ oneShot' = (pos = 0 /\ k = Len(stream))
    /\ UNCHANGED <<prog, sent, stream, notCodec>>

CodecNext == Encode \/ \E k \in 1..(Len(stream) - pos) : Deliver(k)

----------------------------------------------------------------------------
(* video_server.js: the session registry, handleMessagePacket,             *)
(* handleStreamPacket and the TCP server's socket handlers.                *)

Conns == {1, 2}
MaxData == 2          \* data events in one behaviour
Tokens == {"tokA", "tokB"}      \* values generateSO() may return

\* devices[session] as the CONNECT branch builds it (lines 156-166)
deviceEntry(session, PARAMETER) ==
    [session |-> session,
     dsno |-> Prop(PARAMETER, "DSNO"),
     carnum |-> Prop(PARAMETER, "CARNUM"),
     channel |-> Prop(PARAMETER, "CHANNEL"),
     devname |-> Prop(PARAMETER, "DEVNAME"),
     devclass |-> Prop(PARAMETER, "DEVCLASS"),
     devtype |-> Prop(PARAMETER, "DEVTYPE"),
     net |-> Prop(PARAMETER, "NET"),
     pro |-> Prop(PARAMETER, "PRO")]

\* an assignment that keeps what the key already holds
upsertKeepFirst(devs, session, entry) == devs @@ (session :> entry)

\* devices[session] = entry (line 156): the key is created or its value replaced
upsert(devs, session, entry) == (session :> entry) @@ devs

\* x.KEY throws a TypeError when x is undefined or null
Throws(x) == x.t = "undef" \/ x.t = "null"

\* packet.payload as a JS value: the parsed JSON, or a string primitive when
\* JSON.parse threw (every property of a primitive reads undefined)
payloadValue(packet) ==
    IF packet.payload.kind = "json" THEN packet.payload.v ELSE JS("")

\* the REQUESTALIVEVIDEO packet of lines 210-226
requestPacket(msg) ==
    buildPacket(JO([OPERATION |-> JS("REQUESTALIVEVIDEO"),
                    PARAMETER |-> JO([CSRC |-> JS(""), SSRC |-> JN(0),
                                      STREAMNAME |-> JS("1"), STEAMTYPE |-> JN(0),
                                      CHANNEL |-> JN(1), AUDIOVALID |-> JN(0),
                                      IPANDPORT |-> JS("91.238.164.100:5556"),
                                      FRAMECOUNT |-> JN(10), FRAMEMODE |-> JN(0)]),
                    SESSION |-> OrElse(Prop(msg, "SESSION"), JS(""))]
                   @@ ("MODULE" :> JS("MEDIASTREAMMODEL"))),
                0, 0)

\* a server that schedules the delayed request after any CERTIFICATE signal
delayedRequestsAnyCert(module, OPERATION, msg) ==
    IF module = JS("CERTIFICATE") THEN <<requestPacket(msg)>> ELSE <<>>

\* a server that schedules the delayed request twice
delayedRequestsTwice(module, OPERATION, msg) ==
    IF module = JS("CERTIFICATE") /\ OPERATION = JS("CONNECT")
    THEN <<requestPacket(msg), requestPacket(msg)>> ELSE <<>>

\* the packets handed to setTimeout (lines 208-232): the media request, after
\* a CONNECT only
delayedRequests(module, OPERATION, msg) ==
    IF module = JS("CERTIFICATE") /\ OPERATION = JS("CONNECT")
    THEN <<requestPacket(msg)>> ELSE <<>>

\* handleMessagePacket(socket, packet, sessionId) with the registry devs and the
\* token so that generateSO() returns.  The result gives: threw (a TypeError
\* rejected the promise before anything was written), the registry afterwards,
\* the packets written to the socket, the packets handed to setTimeout, the
\* logPacket calls that got past its `if (!sessionId) return`, and the returned
\* session.
handleMessagePacket(packet, sessionId, devs, so) ==
    LET msg == payloadValue(packet)
        session == OrElse(OrElse(Prop(msg, "SESSION"), JS(sessionId)), JS(""))
        module == Prop(msg, "MODULE")
        OPERATION == Prop(msg, "OPERATION")
        PARAMETER == Prop(msg, "PARAMETER")
        isCert == module = JS("CERTIFICATE")
        isConnect == isCert /\ OPERATION = JS("CONNECT")
        isTaskStart == module = JS("MEDIASTREAMMODEL") /\ OPERATION = JS("MEDIATASKSTART")
        threw == Throws(msg) \/ ((isConnect \/ isTaskStart) /\ Throws(PARAMETER))
        certResponse ==
            IF isConnect
            THEN JO([SO |-> JS(so), ERRORCODE |-> JN(0), ERRORCAUSE |-> JS("SUCCESS"),
                     PRO |-> OrElse(Prop(PARAMETER, "PRO"), JS("1.0.5")),
                     MASKCMD |-> JN(1)])
            ELSE IF OPERATION = JS("CREATESTREAM")
            THEN JO([ERRORCODE |-> JN(0), ERRORCAUSE |-> JS("SUCCESS")])
            ELSE EmptyObj
        respJson ==
            IF isCert
            THEN JO([OPERATION |-> OPERATION, RESPONSE |-> certResponse,
                     SESSION |-> session] @@ ("MODULE" :> JS("CERTIFICATE")))
            ELSE IF isTaskStart
            THEN JO([OPERATION |-> JS("REQUESTSTREAM"),
                     PARAMETER |-> JO([STREAMTYPE |-> JN(0 - 1),
                                       STREAMNAME |-> Prop(PARAMETER, "STREAMNAME"),
                                       CSRC |-> Prop(PARAMETER, "CSRC"),
                                       SSRC |-> Prop(PARAMETER, "SSRC")]),
                     SESSION |-> session] @@ ("MODULE" :> JS("MEDIASTREAMMODEL")))
            ELSE Null
    IN  IF threw
        THEN [threw |-> TRUE, devices |-> devs, writes |-> <<>>, timers |-> <<>>,
              logs |-> <<>>, session |-> sessionId]
        ELSE [threw |-> FALSE,
              devices |-> IF isConnect
                          THEN upsert(devs, session.s, deviceEntry(session.s, PARAMETER))
                          ELSE devs,
              writes |-> IF respJson = Null THEN <<>>
                         ELSE <<buildPacket(respJson, packet.payloadType, packet.ssrc)>>,
              timers |-> delayedRequests(module, OPERATION, msg),
              logs |-> IF session.s # "" THEN <<[session |-> session.s, dir |-> "in"]>>
                       ELSE <<>>,
              session |-> session.s]

\* handleStreamPacket: only logPacket(sessionId, packet)
handleStreamPacket(packet, sessionId) ==
    [logs |-> IF sessionId # "" THEN <<[session |-> sessionId, dir |-> "in"]>> ELSE <<>>]

NoEffects(devs) ==
    [devices |-> devs, writes |-> <<>>, timers |-> <<>>, logs |-> <<>>,
     results |-> <<>>, threw |-> FALSE]

\* the effects of one more handleMessagePacket call h added to those so far
addEffects(acc, h) ==
    [devices |-> h.devices,
     writes |-> acc.writes \o h.writes,
     timers |-> acc.timers \o h.timers,
     logs |-> acc.logs \o h.logs,
     results |-> IF h.threw THEN acc.results ELSE Append(acc.results, h.session),
     threw |-> acc.threw \/ h.threw]

RECURSIVE dispatchVS(_, _, _, _, _)
\* the body of the while loop over the packets of one data event, from packet i:
\* every handler sees the sessionId the event started with (line 259 assigns
\* the result in a promise callback, which runs after the loop)
dispatchVS(frames, i, sessionId, sos, acc) ==
    IF i > Len(frames) THEN acc
    ELSE IF frames[i].payloadType = 0 \/ frames[i].payloadType = 1
    THEN dispatchVS(frames, i + 1, sessionId, sos,
             addEffects(acc, handleMessagePacket(frames[i], sessionId, acc.devices, sos[i])))
    ELSE IF frames[i].payloadType = 2
    THEN dispatchVS(frames, i + 1, sessionId, sos,
             [acc EXCEPT !.logs = @ \o handleStreamPacket(frames[i], sessionId).logs])
    ELSE dispatchVS(frames, i + 1, sessionId, sos, acc)

----------------------------------------------------------------------------
(* video_server.js: what devices send, and the server's handlers           *)

Signal(module, operation, fields) ==
    JO(fields @@ ("MODULE" :> JS(module)) @@ ("OPERATION" :> JS(operation)))

FullParamA ==
    JO([DSNO |-> JS("d1"), CARNUM |-> JS("car1"), CHANNEL |-> JN(4),
        DEVNAME |-> JS("n1"), DEVCLASS |-> JS("c1"), DEVTYPE |-> JS("t1"),
        NET |-> JS("net1"), PRO |-> JS("2.0.0")])
FullParamB ==
    JO([DSNO |-> JS("d2"), CARNUM |-> JS("car2"), CHANNEL |-> JN(8),
        DEVNAME |-> JS("n2"), DEVCLASS |-> JS("c2"), DEVTYPE |-> JS("t2"),
        NET |-> JS("net2"), PRO |-> JS("1.0.6")])
PartialParam == JO([CARNUM |-> JS("car2")])     \* no serial, class, type, net, version

ConnectA == Signal("CERTIFICATE", "CONNECT", [SESSION |-> JS("s1"), PARAMETER |-> FullParamA])
ConnectB == Signal("CERTIFICATE", "CONNECT", [SESSION |-> JS("s1"), PARAMETER |-> FullParamB])
ConnectOther == Signal("CERTIFICATE", "CONNECT", [SESSION |-> JS("s2"), PARAMETER |-> FullParamA])
ConnectPartial == Signal("CERTIFICATE", "CONNECT", [SESSION |-> JS("s1"), PARAMETER |-> PartialParam])
ConnectNoParam == Signal("CERTIFICATE", "CONNECT", [SESSION |-> JS("s1")])
KeepAlive == Signal("CERTIFICATE", "KEEPALIVE", [SESSION |-> JS("s1")])
KeepAliveNoSession == Signal("CERTIFICATE", "KEEPALIVE", <<>>)
CreateStream == Signal("CERTIFICATE", "CREATESTREAM", [SESSION |-> JS("s1")])
TaskStart ==
    Signal("MEDIASTREAMMODEL", "MEDIATASKSTART",
           [SESSION |-> JS("s1"),
            PARAMETER |-> JO([STREAMNAME |-> JS("live"), CSRC |-> JS(""), SSRC |-> JN(3)])])
Logout == Signal("CERTIFICATE", "LOGOUT", [SESSION |-> JS("s1")])
Event == Signal("EVEM", "LOGIN", [SESSION |-> JS("s1")])

Signals == { ConnectA, ConnectB, ConnectOther, ConnectPartial, ConnectNoParam, KeepAlive,
             KeepAliveNoSession, CreateStream, TaskStart, Logout, Event }

MediaPayload == <<1, 2, 3>>
\* a raw frame in video_server.js's layout with an arbitrary payload
rawPacket(payloadType, ssrc, payload) ==
    <<0, payloadType>> \o writeUInt16BE(ssrc) \o writeUInt32BE(Len(payload))
        \o writeUInt32BE(0) \o payload
MediaFrame == rawPacket(2, 5, MediaPayload)
\* a header that declares 32 MiB of payload, with nothing behind it
OversizedHeader == <<0, 2>> \o writeUInt16BE(5) \o writeUInt32BE(33554432) \o writeUInt32BE(0)

\* the chunks a data event may carry: one whole signal frame, a media frame, a
\* frame of a reserved payload type, a JSON frame that is no JSON text, the two
\* halves of a frame, a signal frame followed by a media frame, and a header
\* declaring an oversized payload
VSChunks ==
    { buildPacket(m, 0, 1) : m \in Signals }
    \cup { MediaFrame, rawPacket(22, 1, <<9>>), rawPacket(0, 1, <<32, 7, 32>>),
           SubSeq(buildPacket(ConnectA, 0, 1), 1, 20),
           SubSeq(buildPacket(ConnectA, 0, 1), 21, Len(buildPacket(ConnectA, 0, 1))),
           buildPacket(ConnectA, 0, 1) \o MediaFrame,
           OversizedHeader }

NoEvt == [kind |-> "none", conn |-> 0, frames |-> <<>>, sessionBefore |-> "",
          writes |-> <<>>, timers |-> <<>>, logs |-> <<>>, threw |-> FALSE,
          writeFailed |-> FALSE]

VSInit ==
    /\ devices = <<>>
    /\ sock = [c \in Conns |-> "new"]
    /\ buffers = [c \in Conns |-> <<>>]
    /\ sessionIds = [c \in Conns |-> ""]
    /\ pending = [c \in Conns |-> <<>>]
    /\ evt = NoEvt
    /\ nData = 0
    /\ process = "running"

\* net.createServer's connection callback (lines 245-249)
Accept(c) ==
    /\ process = "running"
    /\ sock[c] = "new"
    /\ sock' = [sock EXCEPT ![c] = "open"]
    /\ buffers' = [buffers EXCEPT ![c] = <<>>]
    /\ sessionIds' = [sessionIds EXCEPT ![c] = ""]
    /\ evt' = [NoEvt EXCEPT !.kind = "accept", !.conn = c]
    /\ UNCHANGED <<devices, pending, nData, process, notVS>>

Last(q) == q[Len(q)]

\* whether a socket.write among writes fails: none does when nothing is written
WriteOutcomes(writes) == IF writes = <<>> THEN {FALSE} ELSE BOOLEAN

\* socket.on("data") with the promise callbacks it queues (lines 251-282).  A
\* handler that throws leaves a rejected promise nobody handles: Node reports it
\* and carries on, or (the default since Node 15) ends the process.  A write
\* that fails makes Node destroy the socket and emit 'error' on it.
OnData(c, chunk) ==
    /\ process = "running"
    /\ sock[c] = "open"
    /\ nData < MaxData
    /\ \E r \in {recvLoopVS(buffers[c] \o chunk)} :
       \E sos \in [1..Len(r.frames) -> Tokens] :
       \E d \in {dispatchVS(r.frames, 1, sessionIds[c], sos, NoEffects(devices))} :
           /\ buffers' = [buffers EXCEPT ![c] = r.rest]
           /\ devices' = d.devices
           /\ sessionIds' = [sessionIds EXCEPT ![c] =
                                IF d.results = <<>> THEN @ ELSE Last(d.results)]
           /\ pending' = [pending EXCEPT ![c] = @ \o d.timers]
           /\ \E fail \in WriteOutcomes(d.writes) :
                 /\ sock' = IF fail THEN [sock EXCEPT ![c] = "failing"] ELSE sock
                 /\ evt' = [kind |-> "data", conn |-> c, frames |-> r.frames,
                            sessionBefore |-> sessionIds[c], writes |-> d.writes,
                            timers |-> d.timers, logs |-> d.logs, threw |-> d.threw,
                            writeFailed |-> fail]
           /\ process' \in (IF d.threw THEN {"running", "exited"} ELSE {"running"})
    /\ nData' = nData + 1
    /\ UNCHANGED notVS

\* the setTimeout callback of lines 228-231: socket.write(requestPacket).  On a
\* socket that has ended or errored the write fails and nothing goes out.
TimerFire(c) ==
    /\ process = "running"
    /\ sock[c] # "failing"
    /\ pending[c] # <<>>
    /\ pending' = [pending EXCEPT ![c] = Tail(@)]
    /\ \E fail \in (IF sock[c] = "open" THEN BOOLEAN ELSE {FALSE}) :
          /\ sock' = IF fail THEN [sock EXCEPT ![c] = "failing"] ELSE sock
          /\ evt' = [NoEvt EXCEPT
                       !.kind = "timer", !.conn = c,
                       !.writes = IF sock[c] = "open" THEN <<Head(pending[c])>> ELSE <<>>,
                       !.threw = sock[c] # "open",
                       !.writeFailed = fail]
    /\ UNCHANGED <<devices, buffers, sessionIds, nData, process, notVS>>

\* socket.on("end") (lines 284-286): the device closed; the handler only logs
SocketEnd(c) ==
    /\ process = "running"
    /\ sock[c] = "open"
    /\ sock' = [sock EXCEPT ![c] = "ended"]
    /\ evt' = [NoEvt EXCEPT !.kind = "end", !.conn = c]
    /\ UNCHANGED <<devices, buffers, sessionIds, pending, nData, process, notVS>>

\* socket.on("error") (lines 288-290): the handler only logs
SocketError(c) ==
    /\ process = "running"
    /\ sock[c] \in {"open", "failing"}
    /\ sock' = [sock EXCEPT ![c] = "errored"]
    /\ evt' = [NoEvt EXCEPT !.kind = "error", !.conn = c]
    /\ UNCHANGED <<devices, buffers, sessionIds, pending, nData, process, notVS>>

----------------------------------------------------------------------------
(* unnamed/part_000: handleCert and the control server's socket handlers   *)

\* { type: t, value: v }
Typed(t, v) == JO([type |-> JS(t), value |-> v])

\* handleCert(socket, ssrc, obj), with so1 and so2 the tokens that the two calls
\* of crypto.randomBytes(8).toString('hex') return: the frames written to the
\* socket and the callbacks handed to setTimeout
handleCert(ssrc, obj, so1, so2) ==
    IF ~Truthy(obj) \/ Prop(obj, "MODULE") # JS("CERTIFICATE")
          \/ ~Truthy(Prop(obj, "OPERATION"))
    THEN [writes |-> <<>>, timers |-> <<>>]
    ELSE
    LET op == Prop(obj, "OPERATION")
        \* lines 112-131
        resp == JO([OPERATION |-> JS("CONNECT"),
                    RESPONSE |-> JO([SO |-> Typed("string", JS(so1)),
                                     PRO |-> Typed("string",
                                                OrElse(Prop(Prop(obj, "PARAMETER"), "PRO"),
                                                       JS("1.0.6"))),
                                     ERRORCODE |-> Typed("integer", JN(0)),
                                     ERRORCAUSE |-> Typed("string", JS("OK"))]),
                    SESSION |-> Prop(obj, "SESSION")]
                   @@ ("MODULE" :> JS("CERTIFICATE")))
        first == IF op = JS("CONNECT") THEN <<buildSignalFrame(ssrc, resp)>> ELSE <<>>
        \* lines 134-149
        session == OrElse(OrElse(Prop(obj, "SESSION"), Prop(obj, "session")), JNull)
        protoVer == OrElse(Prop(Prop(obj, "PARAMETER"), "PRO"), JS("1.0.6"))
        reply(operation, response) ==
            <<buildSignalFrame(ssrc, JO([OPERATION |-> JS(operation), RESPONSE |-> response,
                                         SESSION |-> session]
                                        @@ ("MODULE" :> JS("CERTIFICATE"))))>>
        ok == [RETURN |-> Typed("boolean", JB(TRUE)),
               ERRORCODE |-> Typed("integer", JN(0)),
               ERRORCAUSE |-> Typed("string", JS("OK"))]
    IN  \* the switch of lines 151-188
        CASE op = JS("CONNECT") ->
                 [writes |-> first \o reply("CONNECT",
                                 JO([SO |-> Typed("string", JS(so2)),
                                     PRO |-> Typed("string", protoVer),
                                     ERRORCODE |-> Typed("integer", JN(0)),
                                     ERRORCAUSE |-> Typed("string", JS("OK"))])),
                  timers |-> <<>>]
          [] op = JS("VERIFY") -> [writes |-> reply("VERIFY", JO(ok)), timers |-> <<>>]
          [] op = JS("LOGIN") ->
                 [writes |-> reply("LOGIN", JO(ok)), timers |-> <<"requestMedia">>]
          [] op = JS("KEEPALIVE") ->
                 [writes |-> reply("KEEPALIVE", JO([RETURN |-> Typed("boolean", JB(TRUE))])),
                  timers |-> <<>>]
          [] OTHER -> [writes |-> <<>>, timers |-> <<>>]

RECURSIVE dispatchCtl(_, _, _, _, _)
\* the body of the while (true) loop of socket.on('data') from frame i on: the
\* closure's ssrc follows every frame whose header carries a non-zero ssrc; a
\* SIGNAL frame is parsed (JSON.parse skips surrounding blanks; a SyntaxError or
\* a TypeError is caught at line 216) and CERTIFICATE signals go to handleCert
dispatchCtl(frames, i, ssrc, sos, acc) ==
    IF i > Len(frames) THEN [acc EXCEPT !.ssrc = ssrc]
    ELSE LET frame == frames[i]
             ssrc2 == IF frame.header.ssrc # 0 THEN frame.header.ssrc ELSE ssrc
             parsed == JSONparse(trim(frame.payload))
             obj == parsed.v
         IN  IF frame.header.payloadType = 0 /\ parsed.ok /\ ~Throws(obj)
                   /\ Prop(obj, "MODULE") = JS("CERTIFICATE")
             THEN LET h == handleCert(ssrc2, obj, sos[2 * i - 1], sos[2 * i])
                  IN  dispatchCtl(frames, i + 1, ssrc2, sos,
                          [acc EXCEPT !.writes = @ \o h.writes, !.timers = @ \o h.timers])
             ELSE dispatchCtl(frames, i + 1, ssrc2, sos, acc)

\* what a device sends to the control server
CtlSignals ==
    { ConnectA, ConnectNoParam,
      Signal("CERTIFICATE", "VERIFY", [SESSION |-> JS("s1")]),
      Signal("CERTIFICATE", "LOGIN", [SESSION |-> JS("s1")]),
      KeepAlive, Logout, Event }

\* a media frame in part_000's layout
CtlMediaFrame ==
    <<128, 2>> \o writeUInt32BE(5) \o writeUInt32BE(Len(MediaPayload)) \o writeUInt16BE(0)
        \o MediaPayload

\* one whole signal frame, a media frame, and a signal frame cut after 14 bytes
CtlChunks ==
    { buildSignalFrame(1, m) : m \in CtlSignals }
    \cup { CtlMediaFrame, SubSeq(buildSignalFrame(1, ConnectA), 1, 14) }

NoCtlEvt == [kind |-> "none", conn |-> 0, frames |-> <<>>, writes |-> <<>>]

CtlInit ==
    /\ SESSIONS = <<>>
    /\ ctlSock = [c \in Conns |-> "new"]
    /\ rx = [c \in Conns |-> <<>>]
    /\ lastSsrc = [c \in Conns |-> 0]
    /\ ctlTimers = <<>>
    /\ ctlEvt = NoCtlEvt
    /\ nCtl = 0
    /\ ctlProcess = "running"

\* net.createServer's connection callback (lines 193-199)
CtlAccept(c) ==
    /\ ctlProcess = "running"
    /\ ctlSock[c] = "new"
    /\ ctlSock' = [ctlSock EXCEPT ![c] = "open"]
    /\ rx' = [rx EXCEPT ![c] = <<>>]
    /\ lastSsrc' = [lastSsrc EXCEPT ![c] = 0]
    /\ ctlEvt' = [NoCtlEvt EXCEPT !.kind = "accept", !.conn = c]
    /\ UNCHANGED <<SESSIONS, ctlTimers, nCtl, ctlProcess, notCtl>>

\* socket.on('data') (lines 201-224)
CtlOnData(c, chunk) ==
    /\ ctlProcess = "running"
    /\ ctlSock[c] = "open"
    /\ nCtl < MaxData
    /\ \E r \in {recvLoop000(rx[c] \o chunk)} :
       \E sos \in [1..(2 * Len(r.frames)) -> Tokens] :
       \E d \in {dispatchCtl(r.frames, 1, lastSsrc[c], sos,
                             [writes |-> <<>>, timers |-> <<>>, ssrc |-> lastSsrc[c]])} :
           /\ rx' = [rx EXCEPT ![c] = r.rest]
           /\ lastSsrc' = [lastSsrc EXCEPT ![c] = d.ssrc]
           /\ ctlTimers' = ctlTimers \o d.timers
           /\ ctlEvt' = [kind |-> "data", conn |-> c, frames |-> r.frames,
                         writes |-> d.writes]
    /\ nCtl' = nCtl + 1
    /\ UNCHANGED <<SESSIONS, ctlSock, ctlProcess, notCtl>>

\* the setTimeout callback of line 178 calls requestMedia, which the program
\* does not define: the ReferenceError is uncaught and ends the process
CtlTimerFire ==
    /\ ctlProcess = "running"
    /\ ctlTimers # <<>>
    /\ ctlTimers' = Tail(ctlTimers)
    /\ ctlProcess' = "exited"
    /\ ctlEvt' = [NoCtlEvt EXCEPT !.kind = "timer"]
    /\ UNCHANGED <<SESSIONS, ctlSock, rx, lastSsrc, nCtl, notCtl>>

\* socket.on('close') (line 226): the handler only logs
CtlClose(c) ==
    /\ ctlProcess = "running"
    /\ ctlSock[c] \in {"open", "errored"}
    /\ ctlSock' = [ctlSock EXCEPT ![c] = "closed"]
    /\ ctlEvt' = [NoCtlEvt EXCEPT !.kind = "close", !.conn = c]
    /\ UNCHANGED <<SESSIONS, rx, lastSsrc, ctlTimers, nCtl, ctlProcess, notCtl>>

\* socket.on('error') (line 227): the handler only logs
CtlError(c) ==
    /\ ctlProcess = "running"
    /\ ctlSock[c] = "open"
    /\ ctlSock' = [ctlSock EXCEPT ![c] = "errored"]
    /\ ctlEvt' = [NoCtlEvt EXCEPT !.kind = "error", !.conn = c]
    /\ UNCHANGED <<SESSIONS, rx, lastSsrc, ctlTimers, nCtl, ctlProcess, notCtl>>

CtlNext ==
    \/ \E c \in Conns : CtlAccept(c)
    \/ \E c \in Conns, chunk \in CtlChunks : CtlOnData(c, chunk)
    \/ CtlTimerFire
    \/ \E c \in Conns : CtlClose(c)
    \/ \E c \in Conns : CtlError(c)

----------------------------------------------------------------------------
(* unnamed/part_001: N9MConnection, its timers and its socket handlers     *)

intervalMs == 30000        \* CONFIG.heartbeat.intervalMs
timeoutMs == 120000        \* CONFIG.heartbeat.timeoutMs
sweepMs == 5000            \* the period of the idle watchdog

\* Times are kept relative to the present: Date.now() reads 0, and when time
\* passes every stored time moves back.  The program only ever compares
\* Date.now() - lastActivity with timeoutMs, so a lastActivity further back
\* than timeoutMs + sweepMs is kept at that.
DateNow == 0
Oldest == 0 - (timeoutMs + sweepMs)

\* a timer made by setInterval: its next expiry, and whether clearInterval has
\* not yet been called on it
Interval(t, period) == [next |-> t + period, period |-> period, active |-> TRUE]
\* a clearInterval that leaves the timer armed
clearIntervalNot(timer) == timer
clearInterval(timer) == [timer EXCEPT !.active = FALSE]
Due(timer, t) == timer.active /\ timer.next <= t
\* the timer after d ms have passed
later(timer, d) == IF timer.active THEN [timer EXCEPT !.next = @ - d] ELSE timer

\* the key under which this.files holds the write stream of channel ssrc
channelKeyLow(ssrc) == ssrc % 2
channelKey(ssrc) == ssrc

\* this.files.delete(key)
deleteKeyNot(files, key) == files
deleteKey(files, key) == [k \in DOMAIN files \ {key} |-> files[k]]

\* the constructor (lines 109-126) at time t.  files maps a channel key to the
\* index, in sinks, of the write stream fs.createWriteStream returned; sinks
\* holds every write stream this connection created: its path, the chunks
\* written to it and the calls of end() on it.  reasons are the arguments of
\* cleanup so far (the `closed:` log lines).
N9MConnection(t) ==
    [recvBuf |-> <<>>, lastActivity |-> t, dsno |-> JNull, streamname |-> JNull,
     files |-> <<>>, wsRoomKey |-> JNull,
     keepAliveTimer |-> Interval(t, intervalMs), idleTimer |-> Interval(t, sweepMs),
     sinks |-> <<>>, reasons |-> <<>>]

\* `live-${x}`, `${dsno}-ch${ssrc}` and `n9m:${dsno}:ch${ssrc}`
liveName(x) == JS("live-" \o x.s)
fileKey(dsno, ssrc) == [dsno |-> OrElse(dsno, JS("unknown")).s, ch |-> ssrc]
roomKey(dsno, ssrc) == [t |-> "room", dsno |-> OrElse(dsno, JS("unknown")).s, ch |-> ssrc]

RequestResponse(name) == JO([name |-> JS(name), Type |-> JS("Request-response")])

\* sendCreateStream (lines 175-190): the connection afterwards and the packet
\* written; Date.now() in a stream name reads "now"
sendCreateStream(this) ==
    LET streamname == IF Truthy(this.streamname) THEN this.streamname ELSE liveName(JS("now"))
    IN  [this |-> [this EXCEPT !.streamname = streamname],
         writes |-> <<packSignal(JO([module |-> JS("certificate"),
                         operation |-> RequestResponse("CreateStream"),
                         parameter |-> JO([vision |-> JS("1.0.5"), devtype |-> JN(4),
                                           streamname |-> streamname,
                                           ipandport |-> JS(""),
                                           dsno |-> OrElse(this.dsno, JS(""))])]))>>]

\* sendControlStart(ssrc) (lines 192-208)
sendControlStart(this, ssrc) ==
    <<packSignal(JO([module |-> JS("mediaStreamModel"),
                     operation |-> RequestResponse("ControlStream"),
                     parameter |-> JO([csrc |-> JS(""), pt |-> JN(2), ssrc |-> JN(ssrc),
                                       streamname |-> this.streamname,
                                       streamtype |-> JN(1), audiovalid |-> JN(0),
                                       cmd |-> JN(1)])]))>>

\* the operation names /connect|register/i matches
ConnectLike == {"Connect", "CONNECT"}

\* handleSignal(buf) (lines 241-278)
handleSignal(this, buf) ==
    LET parsed == JSONparse(trim(buf))
        msg == parsed.v
        op == OrElse(Prop(Prop(msg, "operation"), "name"), JS("Unknown"))
        param == OrElse(Prop(msg, "parameter"), EmptyObj)
        resp == OrElse(Prop(msg, "response"), EmptyObj)
        discoveredDsno ==
            OrElse(OrElse(OrElse(OrElse(OrElse(Prop(param, "dsno"), Prop(resp, "dsno")),
                                        Prop(param, "deviceid")), Prop(resp, "deviceid")),
                          Prop(param, "imei")), Prop(resp, "imei"))
        identified ==
            IF Truthy(discoveredDsno) /\ ~Truthy(this.dsno)
            THEN [this EXCEPT !.dsno = discoveredDsno,      \* String() of a string
                              !.wsRoomKey = IF @ # JNull THEN @
                                            ELSE roomKey(discoveredDsno, 1)]
            ELSE this
        named ==
            IF Truthy(identified.streamname) THEN identified
            ELSE [identified EXCEPT !.streamname =
                     liveName(OrElse(identified.dsno, JS("now")))]
    IN  IF ~parsed.ok THEN [this |-> this, writes |-> <<>>, casts |-> <<>>]
        ELSE IF op.t = "str" /\ op.s \in ConnectLike
        THEN [this |-> sendCreateStream(named).this,
              writes |-> sendCreateStream(named).writes
                            \o sendControlStart(sendCreateStream(named).this, 1),
              casts |-> <<>>]
        ELSE [this |-> identified, writes |-> <<>>, casts |-> <<>>]

\* handleH264(ssrc, frame) (lines 290-309); casts are the calls of wsBroadcast
handleH264(this, ssrc, frame) ==
    LET key == fileKey(this.dsno, ssrc)
        k == channelKey(ssrc)
        opened ==
            IF k \in DOMAIN this.files THEN this
            ELSE [this EXCEPT
                    !.sinks = Append(@, [path |-> key, writes |-> <<>>, ends |-> 0]),
                    !.files = (k :> (Len(this.sinks) + 1)) @@ @,
                    !.wsRoomKey = IF @ # JNull THEN @ ELSE roomKey(this.dsno, ssrc)]
        written == [opened EXCEPT !.sinks[opened.files[k]].writes = Append(@, frame)]
    IN  [this |-> written, writes |-> <<>>,
         casts |-> IF written.wsRoomKey # JNull
                   THEN <<[key |-> written.wsRoomKey, data |-> frame]>> ELSE <<>>]

\* handlePacket({pt, ssrc, payload}) (lines 230-239); handleMeta and the other
\* branches only log
handlePacket(this, pkt) ==
    CASE pkt.pt = 0 -> handleSignal(this, pkt.payload)
      [] pkt.pt = 2 -> handleH264(this, pkt.ssrc, pkt.payload)
      [] OTHER -> [this |-> this, writes |-> <<>>, casts |-> <<>>]

RECURSIVE dispatchN9M(_, _, _)
\* handlePacket on the packets of one data event from packet i on
dispatchN9M(frames, i, acc) ==
    IF i > Len(frames) THEN acc
    ELSE LET h == handlePacket(acc.this, frames[i])
         IN  dispatchN9M(frames, i + 1,
                 [this |-> h.this, writes |-> acc.writes \o h.writes,
                  casts |-> acc.casts \o h.casts])

RECURSIVE endAll(_, _, _)
\* the for loop of cleanup over the entries keys of this.files: ws.end(), then
\* this.files.delete(ssrc)
endAll(sinks, files, keys) ==
    IF keys = {} THEN [sinks |-> sinks, files |-> files]
    ELSE LET k == CHOOSE x \in keys : \A y \in keys : x <= y
         IN  endAll([sinks EXCEPT ![files[k]].ends = @ + 1], deleteKey(files, k),
                    keys \ {k})

\* cleanup(reason) (lines 163-172), but for socket.destroy()
cleanup(this, reason) ==
    LET e == endAll(this.sinks, this.files, DOMAIN this.files)
    IN  [this EXCEPT !.keepAliveTimer = clearInterval(@),
                     !.idleTimer = clearInterval(@),
                     !.sinks = e.sinks, !.files = e.files,
                     !.reasons = Append(@, reason)]

\* what a device sends to the transmit-mode server
PayloadA == <<1, 2, 3>>
PayloadB == <<4>>
PayloadC == <<5, 6>>
media(ssrc, payload) == buildN9MPacket(2, ssrc, <<>>, payload)
Register ==
    JO([module |-> JS("certificate"), operation |-> JO([name |-> JS("Connect")]),
        parameter |-> JO([dsno |-> JS("d1")])])
DeviceKeepAlive ==
    JO([module |-> JS("certificate"), operation |-> JO([name |-> JS("KeepAlive")])])

\* a media frame of channel 5, one of channel 7, three frames of channels 5, 7
\* and 5 in one chunk, a registration, a keepalive, a signal that is no JSON
\* text, a metadata frame, an audio frame, and the two parts of a media frame
N9MChunks ==
    { media(5, PayloadA), media(7, PayloadB),
      media(5, PayloadA) \o media(7, PayloadB) \o media(5, PayloadC),
      packSignal(Register), packSignal(DeviceKeepAlive),
      buildN9MPacket(0, 0, <<>>, <<125>>),
      buildN9MPacket(1, 5, <<>>, Stringify(EmptyObj)),
      buildN9MPacket(12, 5, <<>>, PayloadB),
      SubSeq(media(7, PayloadC), 1, 9),
      SubSeq(media(7, PayloadC), 10, Len(media(7, PayloadC))) }

\* ---- the WebSocket hub (lines 41-69)
Viewers == {1, 2}
NoViewer == [readyState |-> "none", room |-> JNull, saturated |-> FALSE]

RECURSIVE inOrder(_)
\* the members of a Set as `for (const ws of set)` visits them; viewers are
\* visited by number, which stands for any one insertion order
inOrder(set) ==
    IF set = {} THEN <<>>
    ELSE LET w == CHOOSE x \in set : \A y \in set : x <= y
         IN  <<w>> \o inOrder(set \ {w})

\* wsBroadcast(key, data) (lines 51-57): the ws.send calls it makes
wsBroadcast(rooms, vw, key, data) ==
    IF key \notin DOMAIN rooms THEN <<>>
    ELSE LET open == SelectSeq(inOrder(rooms[key]), LAMBDA w : vw[w].readyState = "OPEN")
         IN  [i \in 1..Len(open) |-> [ws |-> open[i], key |-> key, data |-> data]]

RECURSIVE broadcastAll(_, _, _)
\* the ws.send calls of the wsBroadcast calls casts, in order
broadcastAll(rooms, vw, casts) ==
    IF casts = <<>> THEN <<>>
    ELSE wsBroadcast(rooms, vw, Head(casts).key, Head(casts).data)
            \o broadcastAll(rooms, vw, Tail(casts))

N9MConns == {1}
\* the connections of the runs that are about two devices at once
PairConns == {1, 2}

NoN9MEvt == [kind |-> "none", conn |-> 0, frames |-> <<>>, writes |-> <<>>, casts |-> <<>>,
             writeFailed |-> FALSE, sinkError |-> FALSE, sends |-> <<>>]
NoConn == [recvBuf |-> <<>>]

N9MInit ==
    /\ conn = [c \in PairConns |-> NoConn]
    /\ n9mSock = [c \in PairConns |-> "new"]
    /\ n9mEvt = NoN9MEvt
    /\ nN9M = 0
    /\ n9mProcess = "running"
    /\ wsRooms = <<>>
    /\ viewers = [w \in Viewers |-> NoViewer]

\* net.createServer's connection callback (lines 314-318): new N9MConnection
N9MAccept(c) ==
    /\ n9mProcess = "running"
    /\ n9mSock[c] = "new"
    /\ n9mSock' = [n9mSock EXCEPT ![c] = "open"]
    /\ conn' = [conn EXCEPT ![c] = N9MConnection(DateNow)]
    /\ n9mEvt' = [NoN9MEvt EXCEPT !.kind = "accept", !.conn = c]
    /\ UNCHANGED <<nN9M, n9mProcess, notN9M>>

\* whether a write to a file stream fails while the frames of one data event
\* are handled: none does when no media frame is among them
SinkOutcomes(frames) ==
    IF \E i \in 1..Len(frames) : frames[i].pt = 2 THEN BOOLEAN ELSE {FALSE}

\* socket.on('data') (lines 131-140).  A file stream whose write fails emits
\* 'error' (fs.WriteStream.write does not throw, so the catch of line 304 has
\* nothing to catch); no listener for it is attached to the streams of line
\* 295, and an 'error' event without a listener ends the process.
N9MOnData(c, chunk) ==
    /\ n9mProcess = "running"
    /\ n9mSock[c] = "open"
    /\ nN9M < MaxData
    /\ \E r \in {recvLoop001(conn[c].recvBuf \o chunk)} :
       \E d \in {dispatchN9M(r.frames, 1,
                    [this |-> [conn[c] EXCEPT !.lastActivity = DateNow, !.recvBuf = r.rest],
                     writes |-> <<>>, casts |-> <<>>])} :
           /\ conn' = [conn EXCEPT ![c] = d.this]
           /\ \E fail \in WriteOutcomes(d.writes), sinkError \in SinkOutcomes(r.frames) :
                 /\ n9mSock' = IF fail THEN [n9mSock EXCEPT ![c] = "failing"] ELSE n9mSock
                 /\ n9mProcess' = IF sinkError THEN "exited" ELSE "running"
                 /\ n9mEvt' = [kind |-> "data", conn |-> c, frames |-> r.frames,
                               writes |-> d.writes, casts |-> d.casts,
                               writeFailed |-> fail, sinkError |-> sinkError,
                               sends |-> broadcastAll(wsRooms, viewers, d.casts)]
    /\ nN9M' = nN9M + 1
    /\ UNCHANGED notN9M

\* the keepalive interval's callback (lines 148-153).  socket.write does not
\* throw when the transport fails (Node destroys the socket and emits 'error'),
\* so the catch of line 152 has nothing to catch then.
KeepAliveFire(c) ==
    /\ n9mProcess = "running"
    /\ n9mSock[c] \notin {"new", "failing"}
    /\ Due(conn[c].keepAliveTimer, DateNow)
    /\ conn' = [conn EXCEPT ![c].keepAliveTimer.next = @ + intervalMs]
    /\ \E fail \in (IF n9mSock[c] = "open" THEN BOOLEAN ELSE {FALSE}) :
          /\ n9mSock' = IF fail THEN [n9mSock EXCEPT ![c] = "failing"] ELSE n9mSock
          /\ n9mEvt' = [NoN9MEvt EXCEPT
                          !.kind = "keepalive", !.conn = c,
                          !.writes = IF n9mSock[c] = "open"
                                     THEN <<packSignal(JO([module |-> JS("certificate"),
                                                operation |-> RequestResponse("KeepAlive")]))>>
                                     ELSE <<>>,
                          !.writeFailed = fail]
    /\ UNCHANGED <<nN9M, n9mProcess, notN9M>>

\* a watchdog that closes at the threshold already
idleAtThreshold(this, t) == t - this.lastActivity >= timeoutMs

\* the test of line 157: nothing received for longer than the threshold
idle(this, t) == t - this.lastActivity > timeoutMs

\* the idle watchdog's callback (lines 156-160): cleanup('idle timeout'), whose
\* socket.destroy() leaves a 'close' event to come
IdleSweep(c) ==
    /\ n9mProcess = "running"
    /\ n9mSock[c] \notin {"new", "failing"}
    /\ Due(conn[c].idleTimer, DateNow)
    /\ IF idle(conn[c], DateNow)
       THEN /\ conn' = [conn EXCEPT ![c] =
                           cleanup([@ EXCEPT !.idleTimer.next = @ + sweepMs], "idle timeout")]
            /\ n9mSock' = [n9mSock EXCEPT ![c] = IF @ = "open" THEN "destroyed" ELSE @]
       ELSE /\ conn' = [conn EXCEPT ![c].idleTimer.next = @ + sweepMs]
            /\ UNCHANGED n9mSock
    /\ n9mEvt' = [NoN9MEvt EXCEPT !.kind = "sweep", !.conn = c]
    /\ UNCHANGED <<nN9M, n9mProcess, notN9M>>

\* socket.on('error') (line 143): the socket is destroyed already, and its
\* 'close' event follows
N9MSocketError(c) ==
    /\ n9mProcess = "running"
    /\ n9mSock[c] \in {"open", "failing"}
    /\ conn' = [conn EXCEPT ![c] = cleanup(@, "socket error")]
    /\ n9mSock' = [n9mSock EXCEPT ![c] = "destroyed"]
    /\ n9mEvt' = [NoN9MEvt EXCEPT !.kind = "error", !.conn = c]
    /\ UNCHANGED <<nN9M, n9mProcess, notN9M>>

\* socket.on('close') (line 142), after the device closed the connection or
\* after the socket was destroyed
N9MSocketClose(c) ==
    /\ n9mProcess = "running"
    /\ n9mSock[c] \in {"open", "destroyed"}
    /\ conn' = [conn EXCEPT ![c] = cleanup(@, "socket closed")]
    /\ n9mSock' = [n9mSock EXCEPT ![c] = "closed"]
    /\ n9mEvt' = [NoN9MEvt EXCEPT !.kind = "close", !.conn = c]
    /\ UNCHANGED <<nN9M, n9mProcess, notN9M>>

\* one watchdog period passes, once every callback that was due has run.  A
\* connection whose timers are cleared reads no time any more.
Tick ==
    /\ n9mProcess = "running"
    /\ \A c \in N9MConns : n9mSock[c] # "failing"
    /\ \E c \in N9MConns : n9mSock[c] # "new" /\ conn[c].idleTimer.active
    /\ \A c \in N9MConns :
          n9mSock[c] # "new" =>
              ~Due(conn[c].keepAliveTimer, DateNow) /\ ~Due(conn[c].idleTimer, DateNow)
    /\ conn' = [c \in PairConns |->
                  IF n9mSock[c] = "new" \/ ~conn[c].idleTimer.active THEN conn[c]
                  ELSE [conn[c] EXCEPT
                          !.lastActivity = Max(@ - sweepMs, Oldest),
                          !.keepAliveTimer = later(@, sweepMs),
                          !.idleTimer = later(@, sweepMs)]]
    /\ n9mEvt' = [NoN9MEvt EXCEPT !.kind = "tick"]
    /\ UNCHANGED <<n9mSock, nN9M, n9mProcess, notN9M>>

N9MNext ==
    \/ \E c \in N9MConns : N9MAccept(c)
    \/ \E c \in N9MConns, chunk \in N9MChunks : N9MOnData(c, chunk)
    \/ \E c \in N9MConns : KeepAliveFire(c)
    \/ \E c \in N9MConns : IdleSweep(c)
    \/ \E c \in N9MConns : N9MSocketError(c)
    \/ \E c \in N9MConns : N9MSocketClose(c)
    \/ Tick

CodecIdle ==
    /\ prog = "none" /\ sent = <<>> /\ stream = <<>> /\ pos = 0 /\ rbuf = <<>>
    /\ decoded = <<>> /\ lastEvent = [buf |-> <<>>, frames |-> <<>>, rest |-> <<>>]
    /\ oneShot = TRUE

VSNext ==
    \/ \E c \in Conns : Accept(c)
    \/ \E c \in Conns, chunk \in VSChunks : OnData(c, chunk)
    \/ \E c \in Conns : TimerFire(c)
    \/ \E c \in Conns : SocketEnd(c)
    \/ \E c \in Conns : SocketError(c)

InitVS == VSInit /\ CodecIdle /\ CtlInit /\ N9MInit

SpecVS == InitVS /\ [][VSNext]_vars

InitCtl == CtlInit /\ CodecIdle /\ VSInit /\ N9MInit

InitN9M == N9MInit /\ CodecIdle /\ VSInit /\ CtlInit

SpecN9M == InitN9M /\ [][N9MNext]_vars

\* the rooms a viewer asks for with ?room=
ViewerRooms == {roomKey(JNull, 5), roomKey(JNull, 7)}

\* wss.on('connection') (lines 59-68)
WsConnect(w, room) ==
    /\ n9mProcess = "running"
    /\ viewers[w].readyState = "none"
    /\ wsRooms' = IF room \in DOMAIN wsRooms THEN [wsRooms EXCEPT ![room] = @ \cup {w}]
                  ELSE (room :> {w}) @@ wsRooms
    /\ viewers' = [viewers EXCEPT ![w] = [readyState |-> "OPEN", room |-> room,
                                          saturated |-> FALSE]]
    /\ n9mEvt' = [NoN9MEvt EXCEPT !.kind = "ws connection",
                                  !.sends = <<[ws |-> w, key |-> room, data |-> "CONNECTED"]>>]
    /\ UNCHANGED <<conn, n9mSock, nN9M, n9mProcess, notPart001>>

\* a viewer stops reading: what is sent to it from now on piles up in the
\* server's memory (ws.bufferedAmount grows); its readyState stays OPEN
WsSaturate(w) ==
    /\ n9mProcess = "running"
    /\ viewers[w].readyState = "OPEN" /\ ~viewers[w].saturated
    /\ viewers' = [viewers EXCEPT ![w].saturated = TRUE]
    /\ n9mEvt' = [NoN9MEvt EXCEPT !.kind = "ws saturated"]
    /\ UNCHANGED <<conn, n9mSock, nN9M, n9mProcess, wsRooms, notPart001>>

\* a viewer's closing handshake begins: its readyState is CLOSING until the
\* 'close' event
WsClosing(w) ==
    /\ n9mProcess = "running"
    /\ viewers[w].readyState = "OPEN"
    /\ viewers' = [viewers EXCEPT ![w].readyState = "CLOSING"]
    /\ n9mEvt' = [NoN9MEvt EXCEPT !.kind = "ws closing"]
    /\ UNCHANGED <<conn, n9mSock, nN9M, n9mProcess, wsRooms, notPart001>>

\* ws.on('close') (line 65)
WsClose(w) ==
    /\ n9mProcess = "running"
    /\ viewers[w].readyState \in {"OPEN", "CLOSING"}
    /\ viewers' = [viewers EXCEPT ![w].readyState = "CLOSED"]
    /\ wsRooms' = [wsRooms EXCEPT ![viewers[w].room] = @ \ {w}]
    /\ n9mEvt' = [NoN9MEvt EXCEPT !.kind = "ws close"]
    /\ UNCHANGED <<conn, n9mSock, nN9M, n9mProcess, notPart001>>

\* the transmit-mode server with viewers, within one watchdog period
HubNext ==
    \/ \E c \in N9MConns : N9MAccept(c)
    \/ \E c \in N9MConns, chunk \in N9MChunks : N9MOnData(c, chunk)
    \/ \E c \in N9MConns : N9MSocketError(c)
    \/ \E c \in N9MConns : N9MSocketClose(c)
    \/ \E w \in Viewers, room \in ViewerRooms : WsConnect(w, room)
    \/ \E w \in Viewers : WsSaturate(w)
    \/ \E w \in Viewers : WsClosing(w)
    \/ \E w \in Viewers : WsClose(w)

SpecHub == InitN9M /\ [][HubNext]_vars

\* what each of two devices sends: media of channel 5, media of channel 7,
\* a registration naming the serial d1, and that registration followed by
\* media of channel 5
PairChunks ==
    { media(5, PayloadA), media(7, PayloadB), packSignal(Register),
      packSignal(Register) \o media(5, PayloadA) }

\* the transmit-mode server with two devices, within one watchdog period
PairNext ==
    \/ \E c \in PairConns : N9MAccept(c)
    \/ \E c \in PairConns, chunk \in PairChunks : N9MOnData(c, chunk)
    \/ \E c \in PairConns : N9MSocketError(c)
    \/ \E c \in PairConns : N9MSocketClose(c)

SpecPair == InitN9M /\ [][PairNext]_vars

SpecCtl == InitCtl /\ [][CtlNext]_vars

----------------------------------------------------------------------------
(* Claims on video_server.js                                               *)

\* the maximum payload length of the specification's framing policy (16 MiB);
\* the source has no such limit
MaxPayloadLength == 16 * 1024 * 1024

\* a CERTIFICATE/CONNECT signal frame, its session key and its PARAMETER
ConnectFrame(f) ==
    /\ f.payloadType \in {0, 1}
    /\ Prop(payloadValue(f), "MODULE") = JS("CERTIFICATE")
    /\ Prop(payloadValue(f), "OPERATION") = JS("CONNECT")
    /\ Prop(payloadValue(f), "SESSION").t = "str"
ConnectKey(f) == Prop(payloadValue(f), "SESSION").s
ConnectParam(f) == Prop(payloadValue(f), "PARAMETER")

IdentityFields == {"DSNO", "DEVCLASS", "DEVTYPE", "NET", "PRO"}
HasRequired(P) == P.t = "obj" /\ \A k \in IdentityFields : Prop(P, k) # Undefined

\* the bytes w are a frame answering a CONNECT for session key k with success,
\* a generated token and the protocol version pro
SuccessResponse(w, k, pro) ==
    LET p == parsePacket(w)
    IN  /\ p # Null
        /\ p.payload.kind = "json"
        /\ Prop(p.payload.v, "MODULE") = JS("CERTIFICATE")
        /\ Prop(p.payload.v, "OPERATION") = JS("CONNECT")
        /\ Prop(p.payload.v, "SESSION") = JS(k)
        /\ Prop(Prop(p.payload.v, "RESPONSE"), "ERRORCODE") = JN(0)
        /\ Prop(Prop(p.payload.v, "RESPONSE"), "PRO") = pro
        /\ \E t \in Tokens : Prop(Prop(p.payload.v, "RESPONSE"), "SO") = JS(t)

\* the frames of the data event just handled that are CONNECTs
ConnectsIn(e) == { i \in 1..Len(e.frames) : ConnectFrame(e.frames[i]) }

\* C3: oversized rejection.  An open connection never holds in its receive
\* buffer a header that declares a payload above the maximum: such a header has
\* the connection closed instead of waiting for the declared length.
C3_OversizedRejected ==
    \A c \in Conns :
        (Len(buffers[c]) >= 12 /\ readUInt32BE(buffers[c], 4) > MaxPayloadLength)
            => sock[c] # "open"

\* Connect flow in video_server.js: a data event holding one CONNECT with all
\* identity fields, on a connection without a session and for a key not in the
\* registry, creates the entry and writes exactly one frame, the success
\* response for that key.
ConnectFlow_vs ==
    [][ (/\ evt'.kind = "data" /\ Len(evt'.frames) = 1
         /\ ConnectFrame(evt'.frames[1])
         /\ HasRequired(ConnectParam(evt'.frames[1]))
         /\ evt'.sessionBefore = ""
         /\ ConnectKey(evt'.frames[1]) \notin DOMAIN devices)
        => /\ ConnectKey(evt'.frames[1]) \in DOMAIN devices'
           /\ Len(evt'.writes) = 1
           /\ SuccessResponse(evt'.writes[1], ConnectKey(evt'.frames[1]),
                              Prop(ConnectParam(evt'.frames[1]), "PRO"))
      ]_vars

\* C5: repeated CONNECT is last-write-wins.  A data event holding one CONNECT
\* with a PARAMETER object, for a session key already in the registry, does not
\* throw, writes a success response, and leaves under that key exactly the entry
\* built from this CONNECT, on whichever connection it arrives.
C5_LastWriteWins ==
    [][ (evt'.kind = "data" /\ Cardinality(ConnectsIn(evt')) = 1) =>
          \A i \in ConnectsIn(evt') :
             LET f == evt'.frames[i]
             IN  (ConnectKey(f) \in DOMAIN devices /\ ConnectParam(f).t = "obj") =>
                    /\ ~evt'.threw
                    /\ process' = "running"
                    /\ \E j \in 1..Len(evt'.writes) :
                          SuccessResponse(evt'.writes[j], ConnectKey(f),
                                          OrElse(Prop(ConnectParam(f), "PRO"), JS("1.0.5")))
                    /\ ConnectKey(f) \in DOMAIN devices'
                    /\ devices'[ConnectKey(f)] = deviceEntry(ConnectKey(f), ConnectParam(f))
      ]_vars

\* a second CONNECT with other identity values has replaced the entry of the
\* first, which arrived on the other connection
C5_Witness ==
    /\ evt.kind = "data" /\ evt.conn = 2 /\ sessionIds[1] = "s1"
    /\ Len(evt.frames) = 1 /\ ConnectFrame(evt.frames[1])
    /\ ConnectParam(evt.frames[1]) = FullParamB
    /\ "s1" \in DOMAIN devices /\ devices["s1"] = deviceEntry("s1", FullParamB)
    /\ nData = 2

\* C9: CONNECT with missing parameters is a non-fatal ProtocolError.  A data
\* event holding a CONNECT whose PARAMETER is absent or lacks identity fields
\* leaves the registry as it was, the connection open and the server running.
C9_MissingParamsIgnored ==
    [][ evt'.kind = "data" =>
          \A i \in ConnectsIn(evt') :
             ~HasRequired(ConnectParam(evt'.frames[i])) =>
                 /\ devices' = devices
                 /\ sock'[evt'.conn] = "open"
                 /\ process' = "running"
      ]_vars

\* C10: session release on close.  Every registry entry belongs to a connection
\* that is still open; so while the registry is not empty some connection is.
C10_SessionRelease ==
    (process = "running" /\ devices # <<>>) => \E c \in Conns : sock[c] = "open"

----------------------------------------------------------------------------
(* Claims on unnamed/part_000                                              *)

\* the signal object of a frame the control server obtained
CtlObj(f) == JSONparse(trim(f.payload)).v

\* a CERTIFICATE/CONNECT signal frame that carries all identity fields
CtlFullConnect(f) ==
    /\ f.header.payloadType = 0
    /\ Prop(CtlObj(f), "MODULE") = JS("CERTIFICATE")
    /\ Prop(CtlObj(f), "OPERATION") = JS("CONNECT")
    /\ Prop(CtlObj(f), "SESSION").t = "str"
    /\ HasRequired(Prop(CtlObj(f), "PARAMETER"))

\* the bytes w are a frame answering a CONNECT for session key k with success,
\* a generated token and the protocol version pro (values plain or typed)
CtlSuccessResponse(w, k, pro) ==
    LET p == parseN9M_000(w)
        o == IF p = Null THEN Undefined ELSE JSONparse(trim(p.payload)).v
        R == Prop(o, "RESPONSE")
    IN  /\ Prop(o, "MODULE") = JS("CERTIFICATE")
        /\ Prop(o, "OPERATION") = JS("CONNECT")
        /\ Prop(o, "SESSION") = JS(k)
        /\ Prop(R, "ERRORCODE") \in {JN(0), Typed("integer", JN(0))}
        /\ Prop(R, "PRO") \in {pro, Typed("string", pro)}
        /\ \E t \in Tokens : Prop(R, "SO") \in {JS(t), Typed("string", JS(t))}

\* C4: connect flow.  A data event holding one CONNECT with all identity fields,
\* for a session key not in the registry, creates the registry entry under that
\* key and writes exactly one frame, the success response for that key with a
\* generated token and the protocol version.
C4_ConnectFlow ==
    [][ (/\ ctlEvt'.kind = "data" /\ Len(ctlEvt'.frames) = 1
         /\ CtlFullConnect(ctlEvt'.frames[1])
         /\ Prop(CtlObj(ctlEvt'.frames[1]), "SESSION").s \notin DOMAIN SESSIONS)
        => /\ Prop(CtlObj(ctlEvt'.frames[1]), "SESSION").s \in DOMAIN SESSIONS'
           /\ Len(ctlEvt'.writes) = 1
           /\ CtlSuccessResponse(ctlEvt'.writes[1],
                                 Prop(CtlObj(ctlEvt'.frames[1]), "SESSION").s,
                                 Prop(Prop(CtlObj(ctlEvt'.frames[1]), "PARAMETER"), "PRO"))
      ]_vars

----------------------------------------------------------------------------
(* Claims on unnamed/part_001                                              *)

RECURSIVE payloadsOf(_, _)
\* the payloads of the media frames of channel ch among frames, in order
payloadsOf(frames, ch) ==
    IF frames = <<>> THEN <<>>
    ELSE (IF Head(frames).pt = 2 /\ Head(frames).ssrc = ch
          THEN <<Head(frames).payload>> ELSE <<>>) \o payloadsOf(Tail(frames), ch)

\* the channel ids of the media frames among frames
channelsOf(frames) == { frames[i].ssrc : i \in { j \in 1..Len(frames) : frames[j].pt = 2 } }

\* the channels of the sinks a connection has created
sinkChannels(this) == { this.sinks[i].path.ch : i \in 1..Len(this.sinks) }

\* C6: channel isolation.  Over a data event, a connection gains one sink for
\* each channel id it had not seen before and none else, no two of its sinks
\* are of one channel, and each sink's appends grow by exactly the event's media
\* payloads of the sink's channel, in order.
C6_ChannelIsolation ==
    [][ n9mEvt'.kind = "data" =>
          LET c == n9mEvt'.conn
              old == conn[c].sinks
              new == conn'[c].sinks
          IN  /\ Len(new) = Len(old)
                              + Cardinality(channelsOf(n9mEvt'.frames) \ sinkChannels(conn[c]))
              /\ Cardinality(sinkChannels(conn'[c])) = Len(new)
              /\ \A i \in 1..Len(new) :
                    new[i].writes =
                        (IF i <= Len(old) THEN old[i].writes ELSE <<>>)
                            \o payloadsOf(n9mEvt'.frames, new[i].path.ch)
      ]_vars

\* two frames of channel 5 and one of channel 7 between them have given two
\* sinks, and the sink of channel 5 holds its two payloads in order
C6_Witness ==
    /\ n9mEvt.kind = "data" /\ Len(n9mEvt.frames) = 3
    /\ Len(conn[1].sinks) = 2
    /\ conn[1].sinks[1].path.ch = 5 /\ conn[1].sinks[1].writes = <<PayloadA, PayloadC>>
    /\ conn[1].sinks[2].path.ch = 7 /\ conn[1].sinks[2].writes = <<PayloadB>>

\* C7: idle teardown closes each sink exactly once.  No sink is ever ended
\* twice; once the connection's socket is destroyed or closed, each sink it
\* created has been ended once; and an open connection is never idle for longer
\* than the threshold unless the watchdog's callback is due.
C7_EndedExactlyOnce ==
    \A c \in N9MConns :
        n9mSock[c] # "new" =>
            /\ \A i \in 1..Len(conn[c].sinks) : conn[c].sinks[i].ends <= 1
            /\ n9mSock[c] \in {"destroyed", "closed"} =>
                  \A i \in 1..Len(conn[c].sinks) : conn[c].sinks[i].ends = 1
            /\ (n9mSock[c] = "open" /\ DateNow - conn[c].lastActivity > timeoutMs) =>
                  Due(conn[c].idleTimer, DateNow)

\* the watchdog tore an idle connection with two sinks down, and the 'close'
\* event of the destroyed socket has run cleanup once more
C7_Witness ==
    /\ n9mSock[1] = "closed"
    /\ conn[1].reasons = <<"idle timeout", "socket closed">>
    /\ Len(conn[1].sinks) = 2
    /\ \A i \in 1..2 : conn[1].sinks[i].ends = 1 /\ conn[1].sinks[i].writes # <<>>

----------------------------------------------------------------------------
(* Claims on the codecs                                                    *)

InitCodec == CodecInit /\ VSInit /\ CtlInit /\ N9MInit

SpecCodec == InitCodec /\ [][CodecNext]_vars

Delivered == stream # <<>> /\ pos = Len(stream)

\* C1: chunk-invariance.  Once the whole stream has arrived, in whatever chunks,
\* the frames obtained (payload type, channel id, payload bytes) are those of
\* delivering the stream in one data event; for all three programs.
C1_ChunkInvariance ==
    Delivered => decoded = recvLoop(prog, stream).frames

\* The same for the two programs whose decoders wait for the declared length.
ChunkInvariance_vs_001 ==
    (Delivered /\ prog # "ctl") => decoded = recvLoop(prog, stream).frames

\* C2: round trip.  A stream delivered whole is consumed entirely and yields one
\* frame per encoded frame, with the payload type and channel id supplied and a
\* payload that deserializes to the signal object that was encoded.
C2_RoundTrip ==
    (Delivered /\ oneShot) =>
        /\ rbuf = <<>>
        /\ Len(decoded) = Len(sent)
        /\ \A i \in 1..Len(sent) :
              /\ decoded[i].pt = sent[i].pt
              /\ decoded[i].ssrc = sent[i].ssrc
              /\ decoded[i].declared = Len(decoded[i].payload)
              /\ IF sent[i].json THEN decoded[i].obj = sent[i].obj
                 ELSE decoded[i].payload = sent[i].raw

C2_Witness ==
    /\ Delivered /\ oneShot /\ prog = "n9m" /\ Len(sent) = 1
    /\ sent[1].csrcs # <<>> /\ sent[1].json
    /\ Len(decoded) = 1 /\ decoded[1].obj = NestedObj

\* a frame is incomplete while the buffer is shorter than header + declared length
Incomplete(p, buffer) ==
    \/ Len(buffer) < fixedHeader(p)
    \/ Len(buffer) < headerSize(p, buffer) + declaredLen(p, buffer)

\* C8: the codec never exposes an incomplete frame.  Every frame obtained has a
\* payload of exactly the declared length, and a data event whose buffer holds
\* less than header + declared length obtains no frame and keeps the buffer.
C8_NoIncompleteFrame ==
    /\ \A i \in 1..Len(decoded) : Len(decoded[i].payload) = decoded[i].declared
    /\ Incomplete(prog, lastEvent.buf) =>
          (lastEvent.frames = <<>> /\ lastEvent.rest = lastEvent.buf)

NoIncompleteFrame_vs_001 == prog # "ctl" => C8_NoIncompleteFrame
(***************************************************************************)
(* Write failures (video_server.js lines 198-201, 228-231, 288-290;        *)
(* part_001 lines 141, 148-153, 163-172)                                   *)
(***************************************************************************)

\* C11: a transport write failure is never swallowed: once a write on the
\* socket of a connection has failed, the handling of that failure leaves
\* the connection as an explicit close would: no timer of the connection
\* is left to fire and the socket is gone.  video_server.js only logs the
\* 'error' event: the delayed request of a CONNECT stays scheduled.
C11_WriteFailureCleansUp ==
    [][ \A c \in Conns :
          (sock[c] = "failing" /\ sock'[c] # "failing")
              => (sock'[c] # "open" /\ pending'[c] = <<>>) ]_vars

\* part_001 alone: the 'error' event that follows a failed write (of the
\* keepalive push or of a request) runs cleanup: both timers stopped, every
\* sink ended and forgotten, socket destroyed.
WriteFailureCleansUp_001 ==
    [][ \A c \in N9MConns :
          (n9mSock[c] = "failing" /\ n9mSock'[c] # "failing")
              => /\ n9mSock'[c] = "destroyed"
                 /\ ~conn'[c].keepAliveTimer.active
                 /\ ~conn'[c].idleTimer.active
                 /\ DOMAIN conn'[c].files = {}
                 /\ \A i \in 1..Len(conn'[c].sinks) : conn'[c].sinks[i].ends = 1 ]_vars


(***************************************************************************)
(* Cancellation on close (part_001 lines 146-172)                          *)
(***************************************************************************)

Closed(c) == n9mSock[c] \in {"destroyed", "closed"}

\* C12: close is the single point of cancellation: the step that closes a
\* connection stops its keepalive timer and its idle-sweep timer and ends
\* every sink; once a connection has closed, no keepalive callback and no
\* idle sweep runs for it, nothing is written to its socket, and its
\* timers and sinks stay as cleanup left them.
C12_CloseCancels ==
    [][ \A c \in N9MConns :
          /\ (~Closed(c) /\ n9mSock'[c] \in {"destroyed", "closed"}) =>
                /\ ~conn'[c].keepAliveTimer.active
                /\ ~conn'[c].idleTimer.active
                /\ DOMAIN conn'[c].files = {}
                /\ \A i \in 1..Len(conn'[c].sinks) : conn'[c].sinks[i].ends = 1
          /\ Closed(c) =>
                /\ ~(n9mEvt'.conn = c /\ n9mEvt'.kind \in {"keepalive", "sweep"})
                /\ n9mEvt'.conn = c => n9mEvt'.writes = <<>>
                /\ conn'[c].keepAliveTimer = conn[c].keepAliveTimer
                /\ conn'[c].idleTimer = conn[c].idleTimer
                /\ conn'[c].sinks = conn[c].sinks
                /\ conn'[c].files = conn[c].files ]_vars

\* a connection with a sink closed at a moment when both its keepalive
\* and its idle sweep were due: neither has run since
C12_Witness ==
    /\ n9mSock[1] = "closed"
    /\ conn[1].reasons = <<"socket error", "socket closed">>
    /\ conn[1].sinks # <<>>
    /\ ~conn[1].keepAliveTimer.active /\ conn[1].keepAliveTimer.next <= DateNow
    /\ ~conn[1].idleTimer.active /\ conn[1].idleTimer.next <= DateNow

(***************************************************************************)
(* Media without a session (part_001 lines 290-309)                        *)
(***************************************************************************)

\* no registration has been handled on the connection: it has no stream name
\* and no device serial (lines 124-125, 252-263)
NoSession(this) == this.streamname = JNull /\ this.dsno = JNull

\* C13: a media frame for an unknown session is dropped: when media frames
\* (payload type 2) arrive on a connection on which no session has been
\* established, no sink is created, nothing is appended, nothing is handed
\* to the live fan-out, and the connection stays open.  handleH264 asks for
\* no session: it opens "unknown-ch<ssrc>", appends and broadcasts.
C13_UnknownSessionDropped ==
    [][ (/\ n9mEvt'.kind = "data"
         /\ NoSession(conn[n9mEvt'.conn])
         /\ \A i \in 1..Len(n9mEvt'.frames) : n9mEvt'.frames[i].pt = 2)
            => /\ conn'[n9mEvt'.conn].sinks = conn[n9mEvt'.conn].sinks
               /\ conn'[n9mEvt'.conn].files = conn[n9mEvt'.conn].files
               /\ n9mEvt'.casts = <<>>
               /\ n9mSock'[n9mEvt'.conn] = "open" ]_vars

(***************************************************************************)
(* Dispatch in video_server.js (lines 133-235)                             *)
(***************************************************************************)

\* the (MODULE, OPERATION) pairs for which handleMessagePacket has a branch
\* (lines 147, 167, 169, 179)
Recognized ==
    { <<JS("CERTIFICATE"), JS("CONNECT")>>, <<JS("CERTIFICATE"), JS("KEEPALIVE")>>,
      <<JS("CERTIFICATE"), JS("CREATESTREAM")>>,
      <<JS("MEDIASTREAMMODEL"), JS("MEDIATASKSTART")>> }

\* frame f is a signal, and its message names module and operation
SignalFrame(f) == f.payloadType \in {0, 1} /\ f.payload.kind = "json"
PairOf(f) == <<Prop(payloadValue(f), "MODULE"), Prop(payloadValue(f), "OPERATION")>>

\* C14: unrecognized signals are ignored: a data event holding one signal
\* whose (module, operation) pair the dispatcher has no branch for, an
\* unrecognized operation inside CERTIFICATE included, writes no frame to
\* the socket, leaves the session registry as it was, and leaves the
\* connection open.  The CERTIFICATE case of video_server.js builds and
\* writes a response with an empty RESPONSE for any operation.
C14_UnrecognizedIgnored ==
    [][ (/\ evt'.kind = "data" /\ Len(evt'.frames) = 1
         /\ SignalFrame(evt'.frames[1])
         /\ PairOf(evt'.frames[1]) \notin Recognized)
            => /\ evt'.writes = <<>>
               /\ devices' = devices
               /\ sock'[evt'.conn] = "open" ]_vars

\* part_000 alone: the default branch of handleCert's switch (lines 186-187)
\* only warns, so an operation it has no case for is answered by nothing
UnrecognizedIgnored_000 ==
    [][ (/\ ctlEvt'.kind = "data" /\ Len(ctlEvt'.frames) = 1
         /\ ctlEvt'.frames[1].header.payloadType = 0
         /\ ctlEvt'.frames[1].payload \in
                { Stringify(Logout), Stringify(Event) })
            => /\ ctlEvt'.writes = <<>>
               /\ ctlSock'[ctlEvt'.conn] = "open" ]_vars

\* the logPacket calls among logs made for an inbound / an outbound frame
Inbound(logs) == SelectSeq(logs, LAMBDA l : l.dir = "in")
Outbound(logs) == SelectSeq(logs, LAMBDA l : l.dir = "out")

\* C15: audit completeness: every signalling frame the dispatcher processes
\* reaches the audit hook: a data event holding one signal that is handled
\* without an exception logs that inbound frame, also when it carries no
\* session key, and logs each frame it writes back; the delayed request
\* after a CONNECT is logged when it is written.  video_server.js calls
\* logPacket for the inbound packet only (line 206), and logPacket returns
\* at once when the session id is empty (line 42).
C15_AuditComplete ==
    [][ /\ (/\ evt'.kind = "data" /\ Len(evt'.frames) = 1
            /\ SignalFrame(evt'.frames[1]) /\ ~evt'.threw)
               => /\ Len(Inbound(evt'.logs)) = 1
                  /\ Len(Outbound(evt'.logs)) = Len(evt'.writes)
        /\ evt'.kind = "timer"
               => Len(Outbound(evt'.logs)) = Len(evt'.writes) ]_vars

\* the part of C15 that video_server.js does keep: an inbound signal with
\* a session key, or on a connection that has one, is logged once
InboundWithSessionLogged ==
    [][ (/\ evt'.kind = "data" /\ Len(evt'.frames) = 1
         /\ SignalFrame(evt'.frames[1]) /\ ~evt'.threw
         /\ (Prop(payloadValue(evt'.frames[1]), "SESSION").t = "str"
                \/ evt'.sessionBefore # ""))
            => Len(Inbound(evt'.logs)) = 1 ]_vars

(***************************************************************************)
(* Live fan-out (part_001 lines 49-68, 290-309)                            *)
(***************************************************************************)

\* the data event e has appended each of its media frames to the sink of the
\* frame's channel, in arrival order, taking connection c from sinks old to new
AppendedAll(e, old, new) ==
    /\ \A ch \in channelsOf(e.frames) : \E i \in 1..Len(new) : new[i].path.ch = ch
    /\ \A i \in 1..Len(new) :
          new[i].writes = (IF i <= Len(old) THEN old[i].writes ELSE <<>>)
                              \o payloadsOf(e.frames, new[i].path.ch)

\* the data that the ws.send calls sends hand to viewer w
SentTo(sends, w) ==
    LET mine == SelectSeq(sends, LAMBDA x : x.ws = w)
    IN  [i \in 1..Len(mine) |-> mine[i].data]

\* the data broadcast to room key by the wsBroadcast calls casts
CastTo(casts, key) ==
    LET there == SelectSeq(casts, LAMBDA x : x.key = key)
    IN  [i \in 1..Len(there) |-> there[i].data]

\* C16: fan-out never stalls the durable append: every media frame of a
\* data event is appended to its channel's artifact whatever the state of
\* the viewers; a viewer that is not open or is saturated is sent nothing
\* (its frames are dropped, for itself only), and every other viewer is
\* sent each frame broadcast to its room.  wsBroadcast looks at readyState
\* only: a saturated viewer is sent every frame, which piles up in memory.
C16_FanOutNeverStalls ==
    [][ n9mEvt'.kind = "data" =>
          /\ AppendedAll(n9mEvt', conn[n9mEvt'.conn].sinks, conn'[n9mEvt'.conn].sinks)
          /\ \A w \in Viewers :
                SentTo(n9mEvt'.sends, w) =
                    IF viewers[w].readyState = "OPEN" /\ ~viewers[w].saturated
                    THEN CastTo(n9mEvt'.casts, viewers[w].room)
                    ELSE <<>> ]_vars

\* the part of C16 that part_001 does keep: the append happens whatever the
\* viewers' state, a viewer that is not open is sent nothing, and every open
\* viewer is sent each frame broadcast to its room
AppendWhateverViewers ==
    [][ n9mEvt'.kind = "data" =>
          /\ AppendedAll(n9mEvt', conn[n9mEvt'.conn].sinks, conn'[n9mEvt'.conn].sinks)
          /\ \A w \in Viewers :
                SentTo(n9mEvt'.sends, w) =
                    IF viewers[w].readyState = "OPEN"
                    THEN CastTo(n9mEvt'.casts, viewers[w].room)
                    ELSE <<>> ]_vars

\* C17: SinkError is local: when the append to a channel's file fails
\* during a data event (and no socket write of the event fails), the
\* server keeps running, the connection stays open with both timers armed,
\* and no sink of the connection is ended, so that later media frames are
\* still routed.  The file streams of part_001 have no 'error' listener:
\* the failure ends the process.
C17_SinkErrorLocal ==
    [][ (n9mEvt'.kind = "data" /\ n9mEvt'.sinkError /\ ~n9mEvt'.writeFailed)
            => /\ n9mProcess' = "running"
               /\ n9mSock'[n9mEvt'.conn] = "open"
               /\ conn'[n9mEvt'.conn].keepAliveTimer.active
               /\ conn'[n9mEvt'.conn].idleTimer.active
               /\ \A i \in 1..Len(conn'[n9mEvt'.conn].sinks) :
                     conn'[n9mEvt'.conn].sinks[i].ends = 0 ]_vars

\* C18: a sink's live fan-out is channel-exclusive: whatever a data event
\* sends to a viewer subscribed under the key of channel ch is the payload
\* of a media frame of channel ch in that event.  part_001 keeps one room
\* key per connection, set by the first channel seen (line 298) or by the
\* device's serial (line 262), and broadcasts every channel's frames to it.
C18_FanOutChannelExclusive ==
    [][ n9mEvt'.kind = "data" =>
          \A i \in 1..Len(n9mEvt'.sends) :
              LET own == payloadsOf(n9mEvt'.frames, n9mEvt'.sends[i].key.ch)
              IN  \E j \in 1..Len(own) : own[j] = n9mEvt'.sends[i].data ]_vars

(***************************************************************************)
(* Session state in video_server.js (lines 133-235)                        *)
(***************************************************************************)

\* the session a signal frame is for on a connection whose sessionId is
\* sessionId (line 135)
SessionOf(f, sessionId) ==
    OrElse(OrElse(Prop(payloadValue(f), "SESSION"), JS(sessionId)), JS("")).s

\* the bytes w are a REQUESTSTREAM message naming the stream name, CSRC and
\* SSRC of the request P
StreamRequest(w, P) ==
    LET p == parsePacket(w)
    IN  /\ p # Null
        /\ p.payload.kind = "json"
        /\ Prop(p.payload.v, "MODULE") = JS("MEDIASTREAMMODEL")
        /\ Prop(p.payload.v, "OPERATION") = JS("REQUESTSTREAM")
        /\ Prop(Prop(p.payload.v, "PARAMETER"), "STREAMNAME") = Prop(P, "STREAMNAME")
        /\ Prop(Prop(p.payload.v, "PARAMETER"), "CSRC") = Prop(P, "CSRC")
        /\ Prop(Prop(p.payload.v, "PARAMETER"), "SSRC") = Prop(P, "SSRC")

\* C19: the session state machine only moves forward: a data event holding
\* one MEDIASTREAMMODEL/MEDIATASKSTART signal writes the REQUESTSTREAM
\* message for it when a CONNECT has created its session before, and
\* writes nothing when no CONNECT has.  video_server.js answers every
\* MEDIATASKSTART and never looks the session up.
C19_StreamingOnlyAfterConnect ==
    [][ (/\ evt'.kind = "data" /\ Len(evt'.frames) = 1
         /\ SignalFrame(evt'.frames[1]) /\ ~evt'.threw
         /\ PairOf(evt'.frames[1]) = <<JS("MEDIASTREAMMODEL"), JS("MEDIATASKSTART")>>)
            => IF SessionOf(evt'.frames[1], evt'.sessionBefore) \in DOMAIN devices
               THEN /\ Len(evt'.writes) = 1
                    /\ StreamRequest(evt'.writes[1],
                                     Prop(payloadValue(evt'.frames[1]), "PARAMETER"))
               ELSE evt'.writes = <<>> ]_vars

\* the part of C19 that video_server.js does keep: after a CONNECT has
\* created the session, a MEDIATASKSTART is answered by one REQUESTSTREAM
\* naming the request's stream name, CSRC and SSRC
StreamRequestAfterConnect ==
    [][ (/\ evt'.kind = "data" /\ Len(evt'.frames) = 1
         /\ SignalFrame(evt'.frames[1]) /\ ~evt'.threw
         /\ PairOf(evt'.frames[1]) = <<JS("MEDIASTREAMMODEL"), JS("MEDIATASKSTART")>>
         /\ SessionOf(evt'.frames[1], evt'.sessionBefore) \in DOMAIN devices)
            => /\ Len(evt'.writes) = 1
               /\ StreamRequest(evt'.writes[1],
                                Prop(payloadValue(evt'.frames[1]), "PARAMETER")) ]_vars

\* the bytes w are a CERTIFICATE response to operation op
CertResponse(w, op) ==
    /\ parsePacket(w) # Null
    /\ parsePacket(w).payload.kind = "json"
    /\ Prop(parsePacket(w).payload.v, "MODULE") = JS("CERTIFICATE")
    /\ Prop(parsePacket(w).payload.v, "OPERATION") = op
ResponseOf(w) == Prop(parsePacket(w).payload.v, "RESPONSE")

\* C20: KEEPALIVE and CREATESTREAM change no session state: a data event
\* holding one CERTIFICATE/KEEPALIVE signal writes exactly one frame, a
\* response with an empty RESPONSE; one holding a CERTIFICATE/CREATESTREAM
\* signal writes exactly one frame, a response with error code 0; in both
\* cases the registry is what it was and no delayed request is scheduled.
C20_NoSessionChange ==
    [][ (/\ evt'.kind = "data" /\ Len(evt'.frames) = 1
         /\ SignalFrame(evt'.frames[1]) /\ ~evt'.threw
         /\ PairOf(evt'.frames[1]) \in { <<JS("CERTIFICATE"), JS("KEEPALIVE")>>,
                                         <<JS("CERTIFICATE"), JS("CREATESTREAM")>> })
            => /\ Len(evt'.writes) = 1
               /\ CertResponse(evt'.writes[1], PairOf(evt'.frames[1])[2])
               /\ IF PairOf(evt'.frames[1])[2] = JS("KEEPALIVE")
                  THEN ResponseOf(evt'.writes[1]) = EmptyObj
                  ELSE Prop(ResponseOf(evt'.writes[1]), "ERRORCODE") = JN(0)
               /\ devices' = devices
               /\ evt'.timers = <<>>
               /\ pending' = pending ]_vars

\* a CREATESTREAM was answered on a connection of a registered session
\* whose delayed request after the CONNECT is still to be written
C20_Witness ==
    /\ evt.kind = "data" /\ Len(evt.frames) = 1
    /\ PairOf(evt.frames[1]) = <<JS("CERTIFICATE"), JS("CREATESTREAM")>>
    /\ "s1" \in DOMAIN devices
    /\ Len(evt.writes) = 1
    /\ pending[evt.conn] # <<>>

(***************************************************************************)
(* Order of effects within a connection (video_server.js lines 249-282)    *)
(***************************************************************************)

\* C21: frames of one connection are processed in arrival order with the
\* effects of earlier frames visible to later ones: when a data event
\* holds a signal frame naming a session followed by a media frame, the
\* media frame is handled with that session id, so it is logged under
\* it.  video_server.js assigns sessionId in a promise callback, which
\* runs after the loop: the media frame is handled with the stale value.
C21_SessionVisibleToLaterFrames ==
    [][ (/\ evt'.kind = "data" /\ Len(evt'.frames) = 2 /\ ~evt'.threw
         /\ SignalFrame(evt'.frames[1])
         /\ Prop(payloadValue(evt'.frames[1]), "SESSION").t = "str"
         /\ evt'.frames[2].payloadType = 2)
            => /\ Len(evt'.logs) = 2
               /\ evt'.logs[2].session = SessionOf(evt'.frames[1], evt'.sessionBefore)
      ]_vars

\* the part of C21 that video_server.js does keep: a session id established
\* by one data event is the one the frames of the next data event are
\* handled with
SessionVisibleToLaterEvents ==
    [][ (/\ evt'.kind = "data" /\ Len(evt'.frames) = 1 /\ evt'.sessionBefore # ""
         /\ evt'.frames[1].payloadType = 2)
            => evt'.logs = <<[session |-> sessionIds[evt'.conn], dir |-> "in"]>> ]_vars

(***************************************************************************)
(* Order within a channel (part_001 lines 131-140, 290-309)                *)
(***************************************************************************)

\* the payloads of the media frames among frames, in order
mediaPayloads(frames) ==
    LET m == SelectSeq(frames, LAMBDA f : f.pt = 2)
    IN  [i \in 1..Len(m) |-> m[i].payload]

\* C22: per-channel arrival order is preserved: over a data event, the
\* writes issued to each channel's artifact grow by exactly the payloads
\* received for that channel, in order, one write per frame, and an open
\* viewer subscribed to the key of a channel of the connection's device is
\* sent that same sequence.  The appends are as stated; the broadcast is
\* not, as the one room of the connection is sent every channel's frames.
C22_ChannelOrderPreserved ==
    [][ n9mEvt'.kind = "data" =>
          /\ AppendedAll(n9mEvt', conn[n9mEvt'.conn].sinks, conn'[n9mEvt'.conn].sinks)
          /\ \A w \in Viewers :
                (/\ viewers[w].readyState = "OPEN"
                 /\ viewers[w].room.dsno = fileKey(conn'[n9mEvt'.conn].dsno, 0).dsno)
                    => SentTo(n9mEvt'.sends, w)
                          = payloadsOf(n9mEvt'.frames, viewers[w].room.ch) ]_vars

\* the part of C22 that part_001 does keep: appends per channel in arrival
\* order, and the connection's room is sent every media payload of the
\* event once, in arrival order
BroadcastInArrivalOrder ==
    [][ n9mEvt'.kind = "data" =>
          /\ AppendedAll(n9mEvt', conn[n9mEvt'.conn].sinks, conn'[n9mEvt'.conn].sinks)
          /\ Len(n9mEvt'.casts) = Len(mediaPayloads(n9mEvt'.frames))
          /\ \A i \in 1..Len(n9mEvt'.casts) :
                /\ n9mEvt'.casts[i].data = mediaPayloads(n9mEvt'.frames)[i]
                /\ n9mEvt'.casts[i].key = conn'[n9mEvt'.conn].wsRoomKey
          /\ \A w \in Viewers :
                (viewers[w].readyState = "OPEN"
                    /\ viewers[w].room = conn'[n9mEvt'.conn].wsRoomKey)
                    => SentTo(n9mEvt'.sends, w) = mediaPayloads(n9mEvt'.frames) ]_vars

(***************************************************************************)
(* The receive loops on arbitrary bytes (video_server.js lines 254-281,    *)
(* part_000 lines 204-223, part_001 lines 134-139)                         *)
(***************************************************************************)

MaxFeeds == 2         \* data events per connection

\* one iteration of program p's loop: whether it obtains a frame, and the
\* buffer it leaves
iteration(p, buffer) ==
    CASE p = "vs" ->
           IF Len(buffer) > 0 /\ parsePacket(buffer) # Null
           THEN [frame |-> TRUE, buffer |-> sliceFrom(buffer, parsePacket(buffer).totalLength)]
           ELSE [frame |-> FALSE, buffer |-> buffer]
      [] p = "n9m" ->
           IF parseN9M_001(buffer) # Null
           THEN [frame |-> TRUE, buffer |-> parseN9M_001(buffer).rest]
           ELSE [frame |-> FALSE, buffer |-> buffer]
      [] p = "ctl" ->
           IF parseN9M_000(buffer) # Null
           THEN [frame |-> TRUE, buffer |-> parseN9M_000(buffer).rest]
           ELSE [frame |-> FALSE, buffer |-> buffer]

RECURSIVE bufferLengths(_, _)
\* the length of the buffer at the start of each iteration of the loop, the
\* breaking one included
bufferLengths(p, buffer) ==
    <<Len(buffer)>> \o (IF iteration(p, buffer).frame
                        THEN bufferLengths(p, iteration(p, buffer).buffer) ELSE <<>>)

\* a frame in part_000's layout that declares `declared` bytes of payload
ctlRaw(pt, ssrc, declared, payload) ==
    <<0, pt>> \o writeUInt32BE(ssrc) \o writeUInt32BE(declared) \o <<0, 0>> \o payload

\* the chunks a data event may carry: frames with an empty payload, frames
\* with a payload, two frames at once, a frame with a csrc list, a piece of
\* a header, a header declaring more than follows, and payload bytes alone
LoopChunks(p) ==
    CASE p = "vs" ->
           { rawPacket(2, 5, <<>>), rawPacket(2, 5, <<1, 2, 3>>),
             rawPacket(22, 1, <<>>) \o rawPacket(2, 7, <<4>>),
             <<0, 2, 0, 5, 0>>, rawPacket(2, 5, <<>>) \o <<0, 2>>,
             OversizedHeader, <<1, 2, 3>> }
      [] p = "n9m" ->
           { buildN9MPacket(2, 7, <<>>, <<>>), buildN9MPacket(2, 5, <<>>, <<1, 2, 3>>),
             buildN9MPacket(2, 7, <<>>, <<>>) \o buildN9MPacket(2, 7, <<>>, <<>>),
             buildN9MPacket(0, 513, <<7>>, <<4>>),
             <<0, 2, 0, 5, 0>>, <<0, 2, 0, 5>> \o writeUInt32BE(9) \o <<1>>, <<1, 2, 3>> }
      [] p = "ctl" ->
           { ctlRaw(2, 5, 0, <<>>), ctlRaw(2, 5, 3, <<1, 2, 3>>),
             ctlRaw(2, 5, 0, <<>>) \o ctlRaw(2, 7, 1, <<4>>),
             ctlRaw(2, 5, 0, <<>>) \o ctlRaw(2, 7, 100, <<1, 2>>),
             ctlRaw(2, 5, 1, <<4>>) \o ctlRaw(2, 7, 0, <<>>) \o <<9>>,
             <<0, 2, 0, 5, 0>>, ctlRaw(2, 5, 100, <<1, 2>>), <<1, 2, 3>> }

\* a connection of one of the three programs with an empty receive buffer
LoopInit ==
    /\ prog \in Progs
    /\ sent = <<>> /\ stream = <<>> /\ pos = 0 /\ rbuf = <<>>
    /\ decoded = <<>> /\ lastEvent = NoEvent /\ oneShot = TRUE

\* one 'data' event: concat, then the loop
Feed(chunk) ==
    /\ pos < MaxFeeds
    /\ \E r \in {recvLoop(prog, rbuf \o chunk)} :
           /\ rbuf' = r.rest
           /\ lastEvent' = [buf |-> rbuf \o chunk, frames |-> r.frames, rest |-> r.rest]
    /\ pos' = pos + 1
    /\ UNCHANGED <<prog, sent, stream, decoded, oneShot, notCodec>>

LoopNext == \E chunk \in LoopChunks(prog) : Feed(chunk)

InitLoop == LoopInit /\ VSInit /\ CtlInit /\ N9MInit

SpecLoop == InitLoop /\ [][LoopNext]_vars

\* C23: the receive loop always terminates: on the buffer of every data
\* event, each iteration that obtains a frame shortens the buffer by at
\* least the fixed header size, the loop obtains as many frames as it has
\* such iterations, and what it retains is the unconsumed suffix of the
\* buffer, in video_server.js, part_000 and part_001 alike.
C23_LoopTerminates ==
    LET L == bufferLengths(prog, lastEvent.buf)
    IN  /\ \A i \in 1..(Len(L) - 1) : L[i] - L[i + 1] >= fixedHeader(prog)
        /\ Len(lastEvent.frames) = Len(L) - 1
        /\ Len(lastEvent.rest) = L[Len(L)]
        /\ lastEvent.rest = sliceFrom(lastEvent.buf, Len(lastEvent.buf) - L[Len(L)])
        /\ rbuf = lastEvent.rest

\* part_000's loop has taken a frame with an empty payload and then a
\* frame whose header declares more bytes than the buffer held, and has
\* ended with an empty buffer
C23_Witness ==
    /\ prog = "ctl"
    /\ Len(lastEvent.frames) = 2
    /\ lastEvent.frames[1].declared = 0 /\ lastEvent.frames[1].payload = <<>>
    /\ lastEvent.frames[2].declared > Len(lastEvent.frames[2].payload)
    /\ lastEvent.rest = <<>>

(***************************************************************************)
(* The delayed media request (video_server.js lines 208-232, 284-290)      *)
(***************************************************************************)

\* C24: no write after close from the delayed media request: once the
\* connection of a CONNECT has ended or errored, its pending request is
\* cancelled or neutralized: when the timer runs, no socket.write is made
\* on that socket.  video_server.js keeps no handle of the timer and the
\* callback writes without looking at the socket.
C24_NoWriteAfterClose ==
    [][ (evt'.kind = "timer" /\ sock[evt'.conn] \in {"ended", "errored"})
            => (evt'.writes = <<>> /\ ~evt'.threw) ]_vars

\* the bytes w are a REQUESTALIVEVIDEO message
MediaRequest(w) ==
    /\ parsePacket(w) # Null
    /\ parsePacket(w).payload.kind = "json"
    /\ Prop(parsePacket(w).payload.v, "MODULE") = JS("MEDIASTREAMMODEL")
    /\ Prop(parsePacket(w).payload.v, "OPERATION") = JS("REQUESTALIVEVIDEO")

\* C25: on the wire, the CONNECT response precedes the media request it
\* triggers: a data event writes one CONNECT response per CONNECT it
\* holds and no media request, and schedules one media request per
\* CONNECT behind those already scheduled; a media request is written
\* only by a later timer callback, which writes at most the one request
\* scheduled first; nothing else schedules or drops a request.
C25_ResponseBeforeRequest ==
    [][ /\ (evt'.kind = "data" /\ ~evt'.threw) =>
              /\ Len(SelectSeq(evt'.writes, LAMBDA w : CertResponse(w, JS("CONNECT"))))
                    = Cardinality(ConnectsIn(evt'))
              /\ Len(evt'.timers) = Cardinality(ConnectsIn(evt'))
              /\ \A i \in 1..Len(evt'.writes) : ~MediaRequest(evt'.writes[i])
              /\ \A i \in 1..Len(evt'.timers) : MediaRequest(evt'.timers[i])
              /\ pending'[evt'.conn] = pending[evt'.conn] \o evt'.timers
        /\ evt'.kind = "timer" =>
              /\ pending[evt'.conn] # <<>>
              /\ pending'[evt'.conn] = Tail(pending[evt'.conn])
              /\ evt'.writes \in {<<>>, <<Head(pending[evt'.conn])>>}
        /\ \A c \in Conns :
              pending'[c] # pending[c] => (evt'.conn = c /\ evt'.kind \in {"data", "timer"})
      ]_vars

\* the request scheduled by a CONNECT has been written by the timer, after
\* the response, on a connection that is still open
C25_Witness ==
    /\ evt.kind = "timer"
    /\ sock[evt.conn] = "open"
    /\ Len(evt.writes) = 1 /\ MediaRequest(evt.writes[1])
    /\ "s1" \in DOMAIN devices
    /\ pending[evt.conn] = <<>>

(***************************************************************************)
(* Artifacts of two connections (part_001 lines 250-256, 290-301)          *)
(***************************************************************************)

\* the paths of the write streams connection c holds open
OpenPaths(c) ==
    IF n9mSock[c] = "new" THEN {}
    ELSE { conn[c].sinks[conn[c].files[k]].path : k \in DOMAIN conn[c].files }

\* C26: durable artifacts are never shared between connections: two
\* connections that are open at once never hold write streams on the same
\* file.  part_001 names the file by serial and channel only: two devices
\* whose serial is unknown, or the same, append to one file.
C26_ArtifactsNotShared ==
    \A c \in PairConns, d \in PairConns :
        (c # d /\ n9mSock[c] = "open" /\ n9mSock[d] = "open")
            => OpenPaths(c) \cap OpenPaths(d) = {}

(***************************************************************************)
(* The idle sweep (part_001 lines 131-133, 146-161)                        *)
(***************************************************************************)

\* C27: the idle sweep never closes an active connection: cleanup with
\* reason "idle timeout" happens only in the watchdog's callback and only
\* when the time since the last received bytes exceeds the threshold; a
\* received chunk, even one that completes no frame, resets that time;
\* the keepalive callback does not; and the time passes for an open
\* connection with every period that goes by.
C27_IdleSweepOnlyWhenIdle ==
    [][ \A c \in N9MConns :
          /\ (n9mSock[c] # "new" /\ conn'[c].reasons # conn[c].reasons
                /\ conn'[c].reasons[Len(conn'[c].reasons)] = "idle timeout")
                => /\ n9mEvt'.kind = "sweep" /\ n9mEvt'.conn = c
                   /\ DateNow - conn[c].lastActivity > timeoutMs
          /\ (n9mEvt'.kind = "data" /\ n9mEvt'.conn = c)
                => conn'[c].lastActivity = DateNow
          /\ (n9mEvt'.kind \in {"keepalive", "sweep", "error", "close"} /\ n9mEvt'.conn = c)
                => conn'[c].lastActivity = conn[c].lastActivity
          /\ (n9mEvt'.kind = "tick" /\ n9mSock[c] = "open")
                => conn'[c].lastActivity = Max(conn[c].lastActivity - sweepMs, Oldest)
      ]_vars

\* the watchdog has closed a connection whose last chunk completed no
\* frame and which was sent keepalives since
C27_Witness ==
    /\ n9mSock[1] = "destroyed"
    /\ conn[1].reasons = <<"idle timeout">>
    /\ conn[1].recvBuf # <<>>
    /\ nN9M = 2
    /\ DateNow - conn[1].lastActivity > timeoutMs

====
